---- MODULE Spec2Model ----
(***************************************************************************)
(* Verification model of the grants ingestion pipeline (grants-scraper):   *)
(* the rate-limited retrying fetch client (GrantsGovClient.rateLimit,      *)
(* GrantsGovClient.fetchPage, withRetry), the paginator                    *)
(* (GrantsGovClient.fetchAll) and the pull pipeline with its checkpoint;   *)
(* and of the web scraper (grants-web-app/server): analyzeGrantPage and    *)
(* hydrateRecord.                                                          *)
(*                                                                         *)
(* Time is the value of Date.now() in milliseconds; the scraper's dates    *)
(* are counted in hours and days.                                          *)
(***************************************************************************)
EXTENDS Integers, Sequences, FiniteSets, TLC

(***************************************************************************)
(* Bounds of the model                                                     *)
(***************************************************************************)
\* number of fetchPage calls a fast caller issues on one client
MaxCalls == 4
\* number of fetchPage calls issued against a failing upstream
MaxRetriedCalls == 1
\* largest hit count upstream reports
MaxHits == 5
\* largest pageSize a query is drawn with
MaxPageSize == 3
\* largest maxPages fetchAll is called with
MaxMaxPages == 3
\* pages an upstream that keeps reporting more hits serves to one fetchAll
MaxPagesServed == 3
\* largest requestsPerSecond the configuration is drawn from
MaxRps == 3
\* the calendar day (days since the epoch) on which the scraper runs
Today == 20000

(***************************************************************************)
(* Program constants                                                       *)
(***************************************************************************)
\* rateLimit: const windowMs = 1000
windowMs == 1000
\* fetchPage: withRetry(..., { tries: 5, baseMs: 400, jitter: true })
tries == 5
baseMs == 400
\* withRetry: Math.random() * 100 is a jitter in [0, JitterSpan)
JitterSpan == 100
\* rateLimit: const minInterval = 1000 / this.requestsPerSecond
msPerSecond == 1000
\* loadConfig: process.env.REQUESTS_PER_SECOND || "3"
DefaultRps == 3
\* Date.now() when the client is constructed (any instant long after the epoch)
ConstructedAt == 5000
\* grantness.js: const MIN_FEATURE_MATCHES = 2
MIN_FEATURE_MATCHES == 2
\* computeDeadlineScore: (1000 * 60 * 60 * 24) ms in a day; the scraper's
\* instants are counted in hours
HoursPerDay == 24
\* computeDeadlineScore: a deadline 180 days away or more scores 0.4
DeadlineHorizonDays == 180
\* scoreOpportunity: Math.min(1, topicHits.length / 3)
TopicsForFullScore == 3

VARIABLES
  \* ---- GrantsGovClient fields and the wall clock
  clock,             \* Date.now()
  requestsPerSecond, \* config.requestsPerSecond
  lastRequestTime,
  requestCount,
  windowStartTime,
  \* ---- one fetchPage call in progress
  pc,                \* "idle" | "withRetry" | "parse" | "returned" | "thrown"
  attempt,           \* withRetry's loop variable
  lastError,         \* withRetry's lastError
  delayMs,           \* the last delay withRetry slept, -1 before any sleep
  res,               \* what undici's fetch produced for the latest HTTP request
  thrown,            \* the error fetchPage threw
  \* ---- observations of the run (history)
  calls,             \* fetchPage calls issued so far
  admitted,          \* the instants at which rateLimit let a call through
  waited,            \* how long rateLimit delayed the latest call
  httpRequests,      \* HTTP requests made by the current fetchPage call
  sleeps             \* backoff sleeps made by the current fetchPage call

clientVars == <<clock, requestsPerSecond, lastRequestTime, requestCount,
                windowStartTime, pc, attempt, lastError, delayMs, res, thrown,
                calls, admitted, waited, httpRequests, sleeps>>

VARIABLES
  \* ---- the upstream result set a fetchAll run pages through
  upstream,          \* [mode, hitCount]: how upstream answers page requests
  \* ---- GrantsGovClient.fetchAll: parameters, locals and result
  query,             \* the GrantsGovQuery passed in
  maxPages,          \* the optional maxPages: <<>> (undefined) or <<n>>
  faPc,              \* "idle" | "loop" | "done" | "thrown"
  allResults,
  startRecordNum,
  pageCount,
  hasMore,
  returned,          \* the array fetchAll returned
  \* ---- observations of the run (history)
  sent,              \* the request bodies of the page requests, in order
  lastPage           \* [start, hitCount, hits] of the page just received

pagerVars == <<upstream, query, maxPages, faPc, allResults, startRecordNum,
               pageCount, hasMore, returned, sent, lastPage>>

VARIABLES
  \* ---- the checkpoint store (state/last_run.json)
  checkpoint,        \* <<>> (no file) or <<lastSuccessfulRun>>
  \* ---- pull: its options, position, locals, output files and result
  options,
  pullPc,            \* "idle" | "fetchAll" | "transform" | "writeRejects" |
                     \* "writeJson" | "writeCsv" | "writeSqlite" |
                     \* "writeCheckpoint" | "returned" | "failed"
  sinceISO,
  opportunities,
  rejects,
  rejectsFile,       \* data/_rejects.json: <<>> (not written) or <<content>>
  jsonFile,          \* data/opportunities.json
  csvFile,           \* data/opportunities.csv
  sqliteFile,        \* data/opportunities.sqlite
  result,            \* the PullResult returned: <<>> or <<result>>
  \* ---- observations of the run (history)
  checkpointBefore,  \* the stored checkpoint when the run began
  failedAt           \* the step whose error pull rethrew

pullVars == <<checkpoint, options, pullPc, sinceISO, opportunities, rejects,
              rejectsFile, jsonFile, csvFile, sqliteFile, result,
              checkpointBefore, failedAt>>

VARIABLES
  \* ---- the web scraper: one analyzeGrantPage call and what is saved of it
  input,             \* the page handed to analyzeGrantPage, with its hint
  zone,              \* offset of the process's time zone from UTC, in hours
  wallClock,         \* new Date() at the call, in hours since the epoch
  stage,             \* "idle", the stage about to be evaluated, or "done"
  evaluated,         \* the stages evaluated so far, in order (history)
  analysis,          \* what analyzeGrantPage returned: <<>> or <<record>>
  saved              \* the record saved after hydrateRecord: <<>> or <<record>>

scrapeVars == <<input, zone, wallClock, stage, evaluated, analysis, saved>>

\* fetchPageHtml (server/index.js)
VARIABLES
  fhPc,              \* "idle", "request" (about to send a request), "done"
  fhUrl,             \* the URL asked for
  fhAttempt,         \* the loop variable attempt
  fhResponses,       \* the responses received so far, one per request sent
  fhDelays,          \* the delays slept so far, in milliseconds
  fhResult           \* None, or what the call ended with

htmlVars == <<fhPc, fhUrl, fhAttempt, fhResponses, fhDelays, fhResult>>

\* a scrape run (server/index.js: /api/scrape-local-grants, /api/scrape-ovw,
\* /api/scrape-acf)
VARIABLES
  route,             \* "none", "local", "ovw" or "acf"
  runPc,             \* where the run is
  limit,             \* the route's limit
  serp,              \* local: the links the searches returned, in order
  queue,             \* what is still to be looked at: links (local) or
                     \* scraped opportunities (ovw, acf)
  current,           \* local: None, or the normalized URL of the candidate
                     \* being evaluated
  persisted,         \* the dedup index built from the CSV and the database
  dedupeSets,        \* the dedup index of the run: [urlSet, keySet]
  netLog,            \* the network accesses made for candidates, in order
  collected,         \* the candidates accepted (local) or kept (ovw, acf)
  selected,          \* None, or the records chosen for saving
  lastSkip,          \* None, or the last call of shouldSkipOpportunity:
                     \* its arguments and its result
  runSaved           \* None, or the records the run saved

runVars == <<route, runPc, limit, serp, queue, current, persisted, dedupeSets,
             netLog, collected, selected, lastSkip, runSaved>>

crawlVars == <<htmlVars, runVars>>

vars == <<clientVars, pagerVars, pullVars, scrapeVars, crawlVars>>

(***************************************************************************)
(* Small arithmetic helpers                                                *)
(***************************************************************************)
\* Math.pow(2, n)
RECURSIVE Pow2(_)
Pow2(n) == IF n <= 0 THEN 1 ELSE 2 * Pow2(n - 1)

\* the smallest whole number of milliseconds that is at least a / b
CeilDiv(a, b) == (a + b - 1) \div b

\* sleep(ms): the caller resumes once the requested time has passed; the
\* clock counts whole milliseconds, so a fractional request a / b ends at the
\* first tick at or after it
SleepFor(a, b) == IF a <= 0 THEN 0 ELSE CeilDiv(a, b)

(***************************************************************************)
(* Upstream: what one HTTP request can produce                             *)
(***************************************************************************)
NoHeader == "absent"
\* Retry-After header values the server may send, and parseInt(value, 10)
RetryAfterValues == {"1", "2"}
ParseInt(s) == IF s = "1" THEN 1 ELSE IF s = "2" THEN 2 ELSE 0

ErrorStatuses == {403, 404, 429, 500}
\* the statuses with which the server sends a wait hint
ThrottleStatuses == {429}
\* bodies of a 200 response, by what fetchPage's parsing makes of them
BodyKinds == {"search2", "rest", "nonJson", "badJson", "errorcode",
              "missingOppHits", "unrecognized"}
NoBody == "none"

\* fetch() rejects (timeout, connection reset): no response at all
NetworkFailure ==
  [type |-> "reject", ok |-> FALSE, status |-> 0, retryAfter |-> NoHeader, body |-> NoBody]

FetchResults ==
  {NetworkFailure}
  \cup { [type |-> "response", ok |-> FALSE, status |-> s, retryAfter |-> h, body |-> NoBody]
           : s \in ErrorStatuses, h \in {NoHeader} }
  \cup { [type |-> "response", ok |-> FALSE, status |-> s, retryAfter |-> h, body |-> NoBody]
           : s \in ThrottleStatuses, h \in RetryAfterValues }
  \cup { [type |-> "response", ok |-> TRUE, status |-> 200, retryAfter |-> NoHeader, body |-> b]
           : b \in BodyKinds }

NoResult == [type |-> "none", ok |-> FALSE, status |-> 0, retryAfter |-> NoHeader, body |-> NoBody]

\* An Error object: its message tag and, when fetchPage attached one, the
\* response {status, headers}. headers is the undici Headers object of the
\* response: a class instance whose header fields are reached through
\* get()/has(), not through properties.
NoError == [message |-> "none", hasResponse |-> FALSE, status |-> 0,
            headersClass |-> "none", retryAfter |-> NoHeader]

\* fetchPage lines 426-435: the error thrown for a non-ok response;
\* a rejected fetch throws undici's own error, which has no response
ErrorOf(r) ==
  IF r.type = "reject"
    THEN [message |-> "fetch failed", hasResponse |-> FALSE, status |-> 0,
          headersClass |-> "none", retryAfter |-> NoHeader]
    ELSE [message |-> "HTTP", hasResponse |-> TRUE, status |-> r.status,
          headersClass |-> "Headers", retryAfter |-> r.retryAfter]

\* property names of a Headers instance (its methods)
HeadersMembers == {"append", "delete", "get", "getSetCookie", "has", "set",
                   "keys", "values", "entries", "forEach"}

\* JavaScript's  name in headers : own or inherited property names. A plain
\* object has its header fields as properties; a Headers instance has only
\* its methods.
InOperator(name, err) ==
  IF err.headersClass = "Headers"
    THEN name \in HeadersMembers
    ELSE err.headersClass = "Object" /\ name = "retry-after" /\ err.retryAfter # NoHeader

(***************************************************************************)
(* GrantsGovClient.rateLimit, entered when Date.now() = now                *)
(***************************************************************************)
\* "Reset counter if window expired"
WindowExpired(now) == now - windowStartTime >= windowMs
CountAfterReset(now) == IF WindowExpired(now) THEN 0 ELSE requestCount
WindowAfterReset(now) == IF WindowExpired(now) THEN now ELSE windowStartTime

\* "If we've hit the limit, wait until next window"
WaitTime(now) == windowMs - (now - WindowAfterReset(now))
WindowWait(now) ==
  IF CountAfterReset(now) >= requestsPerSecond /\ WaitTime(now) > 0
    THEN SleepFor(WaitTime(now), 1)
    ELSE 0
WindowSlept(now) == CountAfterReset(now) >= requestsPerSecond /\ WaitTime(now) > 0

\* the minimum-interval sleep; timeSinceLastRequest is computed from the
\* value of now read on entry, also when the window wait has slept since
TimeSinceLastRequest(now) == now - lastRequestTime

\* (mutant) the minimum interval is not enforced
IntervalWaitSkipped(now) == 0

IntervalWait(now) ==
  IF TimeSinceLastRequest(now) * requestsPerSecond < msPerSecond
    THEN SleepFor(msPerSecond - TimeSinceLastRequest(now) * requestsPerSecond,
                  requestsPerSecond)
    ELSE 0

\* Date.now() when rateLimit returns
AdmittedAt(now) == now + WindowWait(now) + IntervalWait(now)

RateLimit(now) ==
  /\ windowStartTime' = IF WindowSlept(now) THEN now + WindowWait(now)
                                            ELSE WindowAfterReset(now)
  /\ requestCount' = (IF WindowSlept(now) THEN 0 ELSE CountAfterReset(now)) + 1
  /\ lastRequestTime' = AdmittedAt(now)
  /\ clock' = AdmittedAt(now)
  /\ waited' = AdmittedAt(now) - now
  /\ admitted' = Append(admitted, AdmittedAt(now))

(***************************************************************************)
(* GrantsGovClient.fetchPage: rateLimit, then withRetry around fetch, then *)
(* the parsing of the body                                                 *)
(***************************************************************************)
\* time the caller lets pass before it issues the next fetchPage call
ThinkTimes == {0, 1, 300, 450, 999, 1000}
\* the same, for the caller of the failing upstream
RetryThinkTimes == {0, 450}
\* values of Math.random() * 100 the model draws
JitterValues == {0, 99}

FetchPageCall(think) ==
  /\ pc \in {"idle", "returned", "thrown"}
  /\ RateLimit(clock + think)
  /\ calls' = calls + 1
  /\ pc' = "withRetry"
  /\ attempt' = 1
  /\ lastError' = NoError
  /\ delayMs' = -1
  /\ res' = NoResult
  /\ thrown' = NoError
  /\ httpRequests' = 0
  /\ sleeps' = 0
  /\ UNCHANGED requestsPerSecond

\* withRetry lines 914-935: null (here -1) unless the headers object has a
\* "retry-after" property holding a string
RetryAfterMs(err) ==
  IF err.hasResponse /\ InOperator("retry-after", err) /\ err.retryAfter # NoHeader
    THEN ParseInt(err.retryAfter) * 1000
    ELSE -1

\* withRetry lines 941-944
DelayFor(err, k, jitter) ==
  IF RetryAfterMs(err) # -1
    THEN RetryAfterMs(err)
    ELSE baseMs * Pow2(k - 1) + jitter

\* (mutant) the loop test is off by one
IsLastAttemptOffByOne(k) == k = tries + 1

\* withRetry lines 937-939: if (attempt === tries) break
IsLastAttempt(k) == k = tries

\* one iteration of withRetry's loop whose fn() resolves: return await fn()
AttemptSucceeds(r) ==
  /\ pc = "withRetry"
  /\ r.ok
  /\ res' = r
  /\ httpRequests' = httpRequests + 1
  /\ pc' = "parse"
  /\ UNCHANGED <<clock, requestsPerSecond, lastRequestTime, requestCount,
                 windowStartTime, attempt, lastError, delayMs, thrown, calls,
                 admitted, waited, sleeps>>

\* one iteration whose fn() throws: the catch block, and the throw after the
\* loop when this was the last attempt
AttemptFails(r, jitter) ==
  /\ pc = "withRetry"
  /\ ~r.ok
  /\ res' = r
  /\ httpRequests' = httpRequests + 1
  /\ lastError' = ErrorOf(r)
  /\ IF IsLastAttempt(attempt)
       THEN /\ pc' = "thrown"
            /\ thrown' = ErrorOf(r)
            /\ UNCHANGED <<clock, attempt, delayMs, sleeps>>
       ELSE /\ delayMs' = DelayFor(ErrorOf(r), attempt, jitter)
            /\ clock' = clock + SleepFor(DelayFor(ErrorOf(r), attempt, jitter), 1)
            /\ sleeps' = sleeps + 1
            /\ attempt' = attempt + 1
            /\ UNCHANGED <<pc, thrown>>
  /\ UNCHANGED <<requestsPerSecond, lastRequestTime, requestCount,
                 windowStartTime, calls, admitted, waited>>

\* fetchPage lines 447-513: what the body of the ok response leads to
ParseError(message) ==
  [message |-> message, hasResponse |-> FALSE, status |-> 0,
   headersClass |-> "none", retryAfter |-> NoHeader]

\* (mutant) a body of an unrecognized shape is let through
ParseOutcomeLenient(body) ==
  CASE body = "nonJson"        -> ParseError("API returned non-JSON response")
    [] body = "badJson"        -> ParseError("Failed to parse JSON response")
    [] body = "errorcode"      -> ParseError("API error")
    [] body = "missingOppHits" -> ParseError("Failed to parse JSON response")
    [] OTHER                   -> NoError

ParseOutcome(body) ==
  CASE body = "nonJson"        -> ParseError("API returned non-JSON response")
    [] body = "badJson"        -> ParseError("Failed to parse JSON response")
    [] body = "errorcode"      -> ParseError("API error")
    [] body = "missingOppHits" -> ParseError("Failed to parse JSON response")
    [] body = "unrecognized"   -> ParseError("Failed to parse JSON response")
    [] OTHER                   -> NoError

ParseBody ==
  /\ pc = "parse"
  /\ IF ParseOutcome(res.body) = NoError
       THEN pc' = "returned" /\ UNCHANGED thrown
       ELSE pc' = "thrown" /\ thrown' = ParseOutcome(res.body)
  /\ UNCHANGED <<clock, requestsPerSecond, lastRequestTime, requestCount,
                 windowStartTime, attempt, lastError, delayMs, res, calls,
                 admitted, waited, httpRequests, sleeps>>

(***************************************************************************)
(* GrantsGovClient.buildRequestBody and GrantsGovClient.fetchAll           *)
(***************************************************************************)
\* an optional value: <<>> is undefined, <<x>> is x
None == <<>>
Some(x) == <<x>>
IsSome(o) == o # <<>>

\* fetchAll / buildRequestBody: query.pageSize || 100
DefaultPageSize == 100

\* a GrantsGovQuery; pageSize 0 stands for an absent pageSize
NoQuery == [status |-> "open", keyword |-> None, since |-> None, until |-> None,
            pageSize |-> 0, page |-> Some(1), startRecordNum |-> None]

PageSizeOf(q) == IF q.pageSize = 0 THEN DefaultPageSize ELSE q.pageSize

\* the function with no field
EmptyBody == [f \in {} |-> 0]

\* buildRequestBody lines 374-384
OppStatusesOf(status) ==
  CASE status = "open"     -> "posted"
    [] status = "closed"   -> "closed"
    [] status = "forecast" -> "forecasted"

\* buildRequestBody lines 353-394: the body holds rows, the filters that are
\* set, oppStatuses and startRecordNum; query.since and query.until are not
\* read
BuildRequestBody(q) ==
  ("rows" :> PageSizeOf(q))
  @@ (IF IsSome(q.keyword) THEN "keyword" :> q.keyword[1] ELSE EmptyBody)
  @@ ("oppStatuses" :> OppStatusesOf(q.status))
  @@ (IF IsSome(q.startRecordNum)
        THEN "startRecordNum" :> q.startRecordNum[1]
        ELSE IF IsSome(q.page) /\ q.pageSize # 0
               THEN "startRecordNum" :> (q.page[1] - 1) * q.pageSize
               ELSE EmptyBody)

NoPage == [start |-> 0, hitCount |-> 0, hits |-> <<>>]

\* records of the upstream result set are named by their position 1, 2, ...
RECURSIVE Range(_, _)
Range(a, b) == IF a > b THEN <<>> ELSE <<a>> \o Range(a + 1, b)

Min(a, b) == IF a <= b THEN a ELSE b
Max(a, b) == IF a >= b THEN a ELSE b

\* the page a well-behaved upstream with n records serves for a request body
FixedPage(n, body) ==
  [hitCount |-> n,
   oppHits |-> Range(body.startRecordNum + 1, Min(body.startRecordNum + body.rows, n))]

\* fetchAll lines 519-524
FetchAllEnter(q, mp) ==
  /\ query' = q
  /\ maxPages' = mp
  /\ allResults' = <<>>
  /\ startRecordNum' = (IF IsSome(q.startRecordNum) THEN q.startRecordNum[1] ELSE 0)
  /\ pageCount' = 0
  /\ hasMore' = TRUE
  /\ faPc' = "loop"
  /\ returned' = <<>>
  /\ sent' = <<>>
  /\ lastPage' = NoPage

\* fetchAll line 527
CurrentQuery == [query EXCEPT !.startRecordNum = Some(startRecordNum)]

\* (mutant) the comparison lets the offset equal to the hit count through
MoreAfterInclusive(page) ==
  startRecordNum + PageSizeOf(query) <= page.hitCount /\ Len(page.oppHits) > 0

\* (mutant) the running total instead of the next offset
MoreAfterByTotal(page) ==
  Len(allResults) + Len(page.oppHits) < page.hitCount /\ Len(page.oppHits) > 0

\* fetchAll lines 540-548: is there a further page after this one
MoreAfter(page) ==
  startRecordNum + PageSizeOf(query) < page.hitCount /\ Len(page.oppHits) > 0

\* fetchAll lines 550-554: the safety valve, tested after the page is counted
HitMaxPages(count) == IsSome(maxPages) /\ count >= maxPages[1]

\* one iteration of fetchAll's loop in which fetchPage returns a page
FetchAllPage(page) ==
  /\ faPc = "loop"
  /\ sent' = Append(sent, BuildRequestBody(CurrentQuery))
  /\ allResults' = allResults \o page.oppHits
  /\ pageCount' = pageCount + 1
  /\ lastPage' = [start |-> startRecordNum, hitCount |-> page.hitCount,
                  hits |-> page.oppHits]
  /\ startRecordNum' = IF MoreAfter(page) THEN startRecordNum + PageSizeOf(query)
                                          ELSE startRecordNum
  /\ hasMore' = MoreAfter(page)
  /\ IF HitMaxPages(pageCount + 1) \/ ~MoreAfter(page)
       THEN faPc' = "done" /\ returned' = allResults \o page.oppHits
       ELSE faPc' = "loop" /\ UNCHANGED returned
  /\ UNCHANGED <<upstream, query, maxPages>>

\* one iteration in which fetchPage throws (retries exhausted, or a
\* malformed body): the error leaves fetchAll
FetchAllThrows ==
  /\ faPc = "loop"
  /\ sent' = Append(sent, BuildRequestBody(CurrentQuery))
  /\ faPc' = "thrown"
  /\ UNCHANGED <<upstream, query, maxPages, allResults, startRecordNum,
                 pageCount, hasMore, returned, lastPage>>

(***************************************************************************)
(* Raw records of the upstream result set, and the transform step          *)
(***************************************************************************)
\* a JavaScript value of a raw record's field: undefined, a string or a
\* number; s is String(value)
Undef == [t |-> "undefined", s |-> "undefined"]
Str(x) == [t |-> "string", s |-> x]
Num(x) == [t |-> "number", s |-> x]

Truthy(v) ==
  CASE v.t = "undefined" -> FALSE
    [] v.t = "string"    -> v.s # ""
    [] v.t = "number"    -> v.s \notin {"0", "NaN"}

\* a || b
OrElse(a, b) == IF Truthy(a) THEN a ELSE b

\* date strings of the samples, and whether new Date(...) can read them
ReadableDates == {"10/11/2023", "2025-01-15T10:00:00Z"}

\* the sample records upstream serves, by position
Raw(id, opportunityId, title, openDate) ==
  [id |-> id, opportunityId |-> opportunityId, opportunityNumber |-> Undef,
   oppId |-> Undef, title |-> title, openDate |-> openDate, postedDate |-> Undef]

Catalogue ==
  << Raw(Str("A"), Undef, Str("Grant A"), Str("10/11/2023")),
     Raw(Num("7"), Undef, Str("Grant 7"), Str("2025-01-15T10:00:00Z")),
     Raw(Str("7"), Undef, Str("Grant 7 again"), Str("10/11/2023")),
     Raw(Undef, Str("B"), Str("Grant B"), Str("10/11/2023")),
     Raw(Undef, Undef, Str("Grant without identity"), Str("10/11/2023")),
     Raw(Str("C"), Undef, Str(""), Str("TBD")) >>

\* pull lines 86-88: the identity a raw record is deduplicated by
DedupeId(raw) ==
  OrElse(raw.id, OrElse(raw.opportunityId,
    OrElse(raw.opportunityNumber, OrElse(raw.oppId, Str(""))))).s

\* pull lines 83-94: the first record of each identity, in order of first
\* appearance; a record with no identity is in no entry of the map
RECURSIVE DedupeFrom(_, _)
DedupeFrom(raws, seen) ==
  IF raws = <<>> THEN <<>>
  ELSE LET id == DedupeId(Catalogue[Head(raws)])
       IN IF id # "" /\ id \notin seen
            THEN <<Head(raws)>> \o DedupeFrom(Tail(raws), seen \cup {id})
            ELSE DedupeFrom(Tail(raws), seen)

\* (mutant) no deduplication: every raw record goes on to the mapping
DedupeNone(raws) == raws

Dedupe(raws) == DedupeFrom(raws, {})

\* mapOpportunity lines 28-91 followed by Opportunity.parse: "ok", or the
\* message of the error thrown
PostedDateOf(raw) == OrElse(raw.openDate, raw.postedDate)

MapOutcome(raw) ==
  IF ~Truthy(raw.id) THEN "Missing required field: id"
  ELSE IF ~Truthy(raw.title) THEN "Missing required field: title"
  ELSE IF ~(PostedDateOf(raw).t = "string" /\ PostedDateOf(raw).s \in ReadableDates)
    THEN "Missing required field: postedDate"
  ELSE "ok"

\* pull lines 97-112
RECURSIVE Accepted(_)
Accepted(raws) ==
  IF raws = <<>> THEN <<>>
  ELSE IF MapOutcome(Catalogue[Head(raws)]) = "ok"
    THEN <<[id |-> Catalogue[Head(raws)].id.s, raw |-> Head(raws)]>> \o Accepted(Tail(raws))
    ELSE Accepted(Tail(raws))

\* (mutant) a record that fails the mapping is dropped without a trace
RejectedDropped(raws) == <<>>

RECURSIVE Rejected(_)
Rejected(raws) ==
  IF raws = <<>> THEN <<>>
  ELSE IF MapOutcome(Catalogue[Head(raws)]) # "ok"
    THEN <<[raw |-> Head(raws), reason |-> MapOutcome(Catalogue[Head(raws)])]>>
           \o Rejected(Tail(raws))
    ELSE Rejected(Tail(raws))

(***************************************************************************)
(* pull                                                                    *)
(***************************************************************************)
\* a date option "YYYY-MM-DD" is the number of its day; 0 is a string that
\* new Date() cannot read
IsValidDate(d) == d > 0
\* toStartOfDayISO / toEndOfDayISO: the instant, in ms
ToStartOfDayISO(d) == d * 86400000
ToEndOfDayISO(d) == d * 86400000 + 86399999

NoOptions == [since |-> None, until |-> None, pageSize |-> 0, maxPages |-> None,
              sqlite |-> FALSE]

OptionsSet ==
  [since : {None, Some(0), Some(1)}, until : {None, Some(2)}, pageSize : {0, 2},
   maxPages : {None, Some(2)}, sqlite : BOOLEAN]

\* pull lines 48-63: the options whose date cannot be read make pull throw
DateWindowFails(opts) ==
  \/ IsSome(opts.since) /\ ~IsValidDate(opts.since[1])
  \/ IsSome(opts.until) /\ ~IsValidDate(opts.until[1])

\* readCheckpoint(): the stored checkpoint, <<>> when there is none
ReadCheckpoint == checkpoint

\* pull lines 49-58
ResolveSince(opts) ==
  IF IsSome(opts.since) THEN Some(ToStartOfDayISO(opts.since[1]))
                        ELSE ReadCheckpoint

\* pull lines 66-76
BuildQuery(opts) ==
  [status |-> "open", keyword |-> None,
   since |-> ResolveSince(opts),
   until |-> IF IsSome(opts.until) THEN Some(ToEndOfDayISO(opts.until[1])) ELSE None,
   pageSize |-> IF opts.pageSize = 0 THEN DefaultPageSize ELSE opts.pageSize,
   page |-> Some(1), startRecordNum |-> None]

PullFails(step) ==
  /\ pullPc' = "failed"
  /\ failedAt' = step

\* pull lines 39-80, up to the first page request; configOk: loadConfig
\* found a valid GRANTSGOV_BASE_URL
PullStart(opts, configOk) ==
  /\ pullPc = "idle"
  /\ options' = opts
  /\ checkpointBefore' = checkpoint
  /\ IF ~configOk \/ DateWindowFails(opts)
       THEN /\ PullFails(IF configOk THEN "dateWindow" ELSE "loadConfig")
            /\ UNCHANGED <<sinceISO, pagerVars>>
       ELSE /\ sinceISO' = ResolveSince(opts)
            /\ FetchAllEnter(BuildQuery(opts), opts.maxPages)
            /\ pullPc' = "fetchAll"
            /\ UNCHANGED <<failedAt, upstream>>
  /\ UNCHANGED <<checkpoint, opportunities, rejects, rejectsFile, jsonFile,
                 csvFile, sqliteFile, result>>

\* the pages upstream answers a pull with
PullHits == {<<>>, <<1, 2>>, <<3, 4>>, <<5, 6>>, <<2, 1>>}
PullPages == [hitCount : {0, MaxHits}, oppHits : PullHits]

\* pull line 80: one iteration of fetchAll's loop
PullFetchPage(page) ==
  /\ pullPc = "fetchAll"
  /\ pageCount < MaxPagesServed
  /\ FetchAllPage(page)
  /\ pullPc' = IF faPc' = "done" THEN "transform" ELSE "fetchAll"
  /\ UNCHANGED <<checkpoint, options, sinceISO, opportunities, rejects,
                 rejectsFile, jsonFile, csvFile, sqliteFile, result,
                 checkpointBefore, failedAt>>

\* (mutant) the failed page is skipped: pull goes on with the pages it has
PullFetchSkipsGap ==
  /\ pullPc = "fetchAll"
  /\ FetchAllThrows
  /\ pullPc' = "transform"
  /\ failedAt' = "fetchAll"
  /\ UNCHANGED <<checkpoint, options, sinceISO, opportunities, rejects,
                 rejectsFile, jsonFile, csvFile, sqliteFile, result,
                 checkpointBefore>>

\* pull line 80: fetchPage throws, fetchAll throws, pull's catch rethrows
PullFetchThrows ==
  /\ pullPc = "fetchAll"
  /\ FetchAllThrows
  /\ PullFails("fetchAll")
  /\ UNCHANGED <<checkpoint, options, sinceISO, opportunities, rejects,
                 rejectsFile, jsonFile, csvFile, sqliteFile, result,
                 checkpointBefore>>

\* pull lines 82-112: deduplicate, then map and validate each record
PullTransform ==
  /\ pullPc = "transform"
  /\ opportunities' = Accepted(Dedupe(returned))
  /\ rejects' = Rejected(Dedupe(returned))
  /\ pullPc' = IF Rejected(Dedupe(returned)) # <<>> THEN "writeRejects" ELSE "writeJson"
  /\ UNCHANGED <<checkpoint, options, sinceISO, rejectsFile, jsonFile, csvFile,
                 sqliteFile, result, checkpointBefore, failedAt, pagerVars>>

\* pull lines 114-127
PullWriteRejects(ok) ==
  /\ pullPc = "writeRejects"
  /\ IF ok THEN /\ rejectsFile' = Some(rejects)
                /\ pullPc' = "writeJson"
                /\ UNCHANGED failedAt
           ELSE /\ PullFails("writeRejects")
                /\ UNCHANGED rejectsFile
  /\ UNCHANGED <<checkpoint, options, sinceISO, opportunities, rejects, jsonFile,
                 csvFile, sqliteFile, result, checkpointBefore, pagerVars>>

\* pull line 132
PullWriteJson(ok) ==
  /\ pullPc = "writeJson"
  /\ IF ok THEN /\ jsonFile' = Some(opportunities)
                /\ pullPc' = "writeCsv"
                /\ UNCHANGED failedAt
           ELSE /\ PullFails("writeJson")
                /\ UNCHANGED jsonFile
  /\ UNCHANGED <<checkpoint, options, sinceISO, opportunities, rejects,
                 rejectsFile, csvFile, sqliteFile, result, checkpointBefore,
                 pagerVars>>

\* (mutant) the SQLite output is skipped
AfterCsvSkippingSqlite == "writeCheckpoint"

\* pull lines 133-137: after the CSV, the SQLite output when asked for
AfterCsv == IF options.sqlite THEN "writeSqlite" ELSE "writeCheckpoint"

PullWriteCsv(ok) ==
  /\ pullPc = "writeCsv"
  /\ IF ok THEN /\ csvFile' = Some(opportunities)
                /\ pullPc' = AfterCsv
                /\ UNCHANGED failedAt
           ELSE /\ PullFails("writeCsv")
                /\ UNCHANGED csvFile
  /\ UNCHANGED <<checkpoint, options, sinceISO, opportunities, rejects,
                 rejectsFile, jsonFile, sqliteFile, result, checkpointBefore,
                 pagerVars>>

PullWriteSqlite(ok) ==
  /\ pullPc = "writeSqlite"
  /\ IF ok THEN /\ sqliteFile' = Some(opportunities)
                /\ pullPc' = "writeCheckpoint"
                /\ UNCHANGED failedAt
           ELSE /\ PullFails("writeSqlite")
                /\ UNCHANGED sqliteFile
  /\ UNCHANGED <<checkpoint, options, sinceISO, opportunities, rejects,
                 rejectsFile, jsonFile, csvFile, result, checkpointBefore,
                 pagerVars>>

\* writeCheckpoint(cp): the write replaces the stored checkpoint as a whole
\* or, when it fails, leaves it as it was
WriteCheckpoint(cp, ok) == checkpoint' = IF ok THEN Some(cp) ELSE checkpoint

\* nowISO()
NowISO == clock

\* (mutant) a failed checkpoint write is swallowed
PullCompletesRegardless(ok) == TRUE

\* pull lines 140-158: pull goes on to build its PullResult only when the
\* awaited writeCheckpoint did not throw
PullCompletes(ok) == ok

\* pull lines 139-153: the checkpoint write, then the PullResult
PullWriteCheckpoint(ok) ==
  /\ pullPc = "writeCheckpoint"
  /\ WriteCheckpoint(NowISO, ok)
  /\ IF PullCompletes(ok) THEN /\ result' = Some([totalFetched |-> Len(Dedupe(returned)),
                                   valid |-> Len(opportunities),
                                   rejected |-> Len(rejects),
                                   pages |-> CeilDiv(Len(Dedupe(returned)),
                                                     PageSizeOf(query))])
                /\ pullPc' = "returned"
                /\ UNCHANGED failedAt
           ELSE /\ PullFails("writeCheckpoint")
                /\ UNCHANGED result
  /\ UNCHANGED <<options, sinceISO, opportunities, rejects, rejectsFile,
                 jsonFile, csvFile, sqliteFile, checkpointBefore, pagerVars>>

(***************************************************************************)
(* The web scraper (grants-web-app/server/grantness.js): dates              *)
(***************************************************************************)
\* A Date is its instant in hours since the epoch; a date string
\* "YYYY-MM-DD" is the number of its day; the process runs in a time zone
\* z hours ahead of UTC (behind, when z is negative).

\* the deadline phrases a page may carry: none, a phrase whose date cannot be
\* read, or a date written as ISO "2025-06-10" or long "June 10, 2025"
DeadlineForms == {"iso", "long"}
DeadlinePhrases ==
  {None} \cup {Some([form |-> "unreadable", day |-> Today])}
         \cup {Some([form |-> f, day |-> d]) :
                 f \in DeadlineForms, d \in {Today - 1, Today, Today + 1}}

\* Date.parse(raw): a date-only ISO string is read as UTC midnight, any other
\* form as midnight local time
DateParse(phrase, z) ==
  IF phrase.form = "iso" THEN phrase.day * HoursPerDay
                         ELSE phrase.day * HoursPerDay - z

\* date.toISOString().split('T')[0]: the UTC day of an instant
UtcDay(t) == t \div HoursPerDay

\* parseDeadline(text): '' (<<>>) or the date string of the first deadline
\* phrase
ParseDeadline(phrase, z) ==
  IF phrase = None \/ phrase[1].form = "unreadable" THEN None
  ELSE Some(UtcDay(DateParse(phrase[1], z)))

\* new Date("YYYY-MM-DD"): UTC midnight of that day
DateOf(day) == day * HoursPerDay

\* date.setHours(0, 0, 0, 0): the start of the local day the instant is in
StartOfLocalDay(t, z) == ((t + z) \div HoursPerDay) * HoursPerDay - z

\* (mutant) the deadline is compared with the instant of the call
IsExpiredByInstant(deadline, t, z) ==
  IF deadline = None THEN FALSE ELSE DateOf(deadline[1]) < t

\* isExpiredDeadline(deadline), run at instant t in zone z
IsExpiredDeadline(deadline, t, z) ==
  IF deadline = None THEN FALSE
  ELSE StartOfLocalDay(DateOf(deadline[1]), z) < StartOfLocalDay(t, z)

(***************************************************************************)
(* The web scraper: pages and the stages of analyzeGrantPage               *)
(***************************************************************************)
GovUrl == "https://ovc.ojp.gov/funding/fy-2025-victim-services"
TrustedUrl == "https://myflfamilies.com/grants/victim-services"
OtherUrl == "https://example.com/grants"
MilUrl == "https://home.army.mil/funding/victim-advocacy"
\* a second address of the page at GovUrl
GovUrl2 == "https://ovc.ojp.gov/funding/fy-2025-victim-services?ref=list"
BadUrl == "not a url"

\* new URL(url).hostname.toLowerCase()
Hostname(url) ==
  CASE url = GovUrl     -> "ovc.ojp.gov"
    [] url = GovUrl2    -> "ovc.ojp.gov"
    [] url = TrustedUrl -> "myflfamilies.com"
    [] url = OtherUrl   -> "example.com"
    [] url = MilUrl     -> "home.army.mil"
    [] OTHER            -> ""

\* the suffix of a host name, of those the code tests with endsWith
SuffixOf(hostname) ==
  CASE hostname = "ovc.ojp.gov"   -> ".gov"
    [] hostname = "home.army.mil" -> ".mil"
    [] OTHER                      -> ".com"

ALLOWED_DOMAIN_SUFFIXES == {".gov", ".mil", ".us"}
TRUSTED_HOSTS == {"floridahealth.gov", "myflfamilies.com", "dcf.fl.gov",
                  "ojp.gov", "hud.gov", "hhs.gov"}

\* isAllowedDomain(hostname)
IsAllowedDomain(hostname) ==
  /\ hostname # ""
  /\ \/ hostname \in TRUSTED_HOSTS
     \/ SuffixOf(hostname) \in ALLOWED_DOMAIN_SUFFIXES

\* normalizeText(value): white space collapsed and trimmed
NormalizeText(value) ==
  CASE value = " "   -> ""
    [] value = " FL" -> "FL"
    [] OTHER         -> value

\* the location hints: the string split at its commas; <<>> is ''
LocationHints == {<<>>, <<" ">>, <<"Florida">>, <<"Jacksonville", " FL">>}

\* splitLocation(locationHint)
SplitLocation(locationHint) ==
  IF locationHint = <<>> THEN [city |-> "", state |-> ""]
  ELSE IF Len(locationHint) >= 2
    THEN [city |-> NormalizeText(locationHint[1]),
          state |-> NormalizeText(locationHint[2])]
    ELSE [city |-> NormalizeText(locationHint[1]), state |-> ""]

\* createStableId(text): the first 12 hex digits of the SHA-1 of the text
CreateStableId(text) ==
  CASE text = GovUrl     -> "5d41402abc4b"
    [] text = "https://www.justice.gov/ovw/media/1001" -> "e4da3b7fbbce"
    [] text = "https://www.justice.gov/ovw/media/1002" -> "1679091c5a88"
    [] text = "https://www.justice.gov/ovw/media/1003" -> "8f14e45fceea"
    [] text = GovUrl2    -> "0cc175b9c0f1"
    [] text = MilUrl     -> "92eb5ffee6ae"
    [] text = TrustedUrl -> "7c211433f020"
    [] text = OtherUrl   -> "e4da3b7fbbce"
    [] OTHER             -> "da39a3ee5e6b"

\* the pages analyzeGrantPage is called with. title is og:title || <title>
\* || snippet before normalizeText; blocklisted, tribal and generic are what
\* hasBlocklistedSignal, hasTribalSpecificContent and isGenericLandingPage
\* find in the page; topicHits and featureHits what detectTopicHits and
\* getGrantFeatureHits find; amount what extractAwardAmount finds; signals the
\* other marks hasMinimumSpecificity looks for in the text
GivenPairs ==
  { <<"", "<html>">>, <<GovUrl, "">>, <<GovUrl, "<html>">>,
    <<TrustedUrl, "<html>">>, <<OtherUrl, "<html>">> }
PageTitles == {"", " ", "FY 2025 Services for Victims of Human Trafficking"}
PageTopics == {<<>>, <<"human trafficking">>}
PageFeatures == {<<"apply">>, <<"apply", "eligibility">>}
\* what hasMinimumSpecificity can go by, besides a deadline: an award
\* amount, an opportunity number, or contact details
PageSpecifics ==
  { [amount |-> "", signals |-> "none"], [amount |-> "50000", signals |-> "none"],
    [amount |-> "", signals |-> "oppNumber"], [amount |-> "", signals |-> "contact"] }
PageDescription == "Funding for victim service providers"
PageHints == {<<>>, <<"Jacksonville", " FL">>}

Page(g, t, f, th, fh, d, sp, h) ==
  [url |-> g[1], html |-> g[2], title |-> t,
   description |-> PageDescription, blocklisted |-> f[1], tribal |-> f[2],
   generic |-> f[3], topicHits |-> th, featureHits |-> fh, deadline |-> d,
   amount |-> sp.amount, signals |-> sp.signals, locationHint |-> h]

\* pages of every combination of stage outcomes up to the feature count, with
\* no deadline or one that has passed
CascadePages ==
  { Page(g, t, f, th, fh, d, sp, h)
    : g \in GivenPairs, t \in PageTitles, f \in BOOLEAN \X BOOLEAN \X BOOLEAN,
      th \in PageTopics, fh \in PageFeatures,
      d \in {None, Some([form |-> "iso", day |-> Today - 1])},
      sp \in {s \in PageSpecifics : s.signals = "none"}, h \in PageHints }

\* pages that pass every stage up to the feature count, with every deadline
\* phrase
DeadlinePages ==
  { Page(g, "FY 2025 Services for Victims of Human Trafficking",
         <<FALSE, FALSE, FALSE>>, <<"human trafficking">>,
         <<"apply", "eligibility">>, d, sp, h)
    : g \in {<<GovUrl, "<html>">>, <<TrustedUrl, "<html>">>, <<MilUrl, "<html>">>},
      d \in DeadlinePhrases, sp \in PageSpecifics, h \in PageHints }

Pages == CascadePages \cup DeadlinePages

NoInput ==
  [url |-> "", html |-> "", title |-> "", description |-> "",
   blocklisted |-> FALSE, tribal |-> FALSE, generic |-> FALSE,
   topicHits |-> <<>>, featureHits |-> <<>>, deadline |-> None, amount |-> "",
   signals |-> "none", locationHint |-> <<>>]

\* the zones and local hours of the day at which the scraper runs
Zones == {-5, 0, 2}
LocalHours == {0, 23}

\* the stages of analyzeGrantPage, in the order the code evaluates them
Stages == <<"domain", "title", "tribal", "generic", "topics", "features",
            "expiry", "specificity">>

\* lines 654-656
PassesDomain(in) ==
  /\ in.url # ""
  /\ in.html # ""
  /\ IsAllowedDomain(Hostname(in.url))
\* line 659
TitleOf(in) == NormalizeText(in.title)
\* line 663
PassesTitle(in) == TitleOf(in) # "" /\ ~in.blocklisted
\* line 669
PassesTribal(in) == ~in.tribal
\* line 675
PassesGeneric(in) == ~in.generic
\* lines 680-681
PassesTopics(in) == Len(in.topicHits) # 0
\* lines 686-687
PassesFeatures(in) == Len(in.featureHits) >= MIN_FEATURE_MATCHES
\* lines 692-697
PassesExpiry(in, z, t) ==
  ~(IsSome(ParseDeadline(in.deadline, z))
      /\ IsExpiredDeadline(ParseDeadline(in.deadline, z), t, z))

\* hasMinimumSpecificity: the host names it is lenient with
IsFloridaSite(hostname) == hostname \in {"floridahealth.gov", "dcf.fl.gov"}
\* hasMinimumSpecificity(response_deadline, award_amount, text, url)
HasMinimumSpecificity(deadline, amount, in) ==
  \/ IsSome(deadline)
  \/ amount # ""
  \/ in.signals = "oppNumber"
  \/ /\ IsFloridaSite(Hostname(in.url)) \/ SuffixOf(Hostname(in.url)) = ".gov"
     /\ in.signals = "contact"
\* line 703
PassesSpecificity(in, z) ==
  HasMinimumSpecificity(ParseDeadline(in.deadline, z), in.amount, in)

\* (mutant) one funding-notice feature is enough
StagePassesOneFeature(name, in, z, t) ==
  CASE name = "domain"      -> PassesDomain(in)
    [] name = "title"       -> PassesTitle(in)
    [] name = "tribal"      -> PassesTribal(in)
    [] name = "generic"     -> PassesGeneric(in)
    [] name = "topics"      -> PassesTopics(in)
    [] name = "features"    -> Len(in.featureHits) >= 1
    [] name = "expiry"      -> PassesExpiry(in, z, t)
    [] name = "specificity" -> PassesSpecificity(in, z)

\* the test analyzeGrantPage makes at each stage
StagePasses(name, in, z, t) ==
  CASE name = "domain"      -> PassesDomain(in)
    [] name = "title"       -> PassesTitle(in)
    [] name = "tribal"      -> PassesTribal(in)
    [] name = "generic"     -> PassesGeneric(in)
    [] name = "topics"      -> PassesTopics(in)
    [] name = "features"    -> PassesFeatures(in)
    [] name = "expiry"      -> PassesExpiry(in, z, t)
    [] name = "specificity" -> PassesSpecificity(in, z)

(***************************************************************************)
(* The web scraper: scoring and the accepted record                        *)
(***************************************************************************)
\* (mutant) the trusted hosts are forgotten
ComputeDomainTrustSuffixOnly(hostname) ==
  IF hostname = "" THEN 0
  ELSE IF SuffixOf(hostname) = ".gov" THEN 100
  ELSE IF SuffixOf(hostname) \in {".us", ".mil"} THEN 90
  ELSE 50

\* computeDomainTrust(hostname), in hundredths
ComputeDomainTrust(hostname) ==
  IF hostname = "" THEN 0
  ELSE IF SuffixOf(hostname) = ".gov" THEN 100
  ELSE IF SuffixOf(hostname) \in {".us", ".mil"} THEN 90
  ELSE IF hostname \in TRUSTED_HOSTS THEN 80
  ELSE 50

\* computeDeadlineScore(deadline) at instant t, in thousandths (the quotient
\* of the last case is rounded down to a thousandth)
ComputeDeadlineScore(deadline, t) ==
  IF deadline = None THEN 300
  ELSE LET diffHours == DateOf(deadline[1]) - t
       IN IF diffHours <= 0 THEN 200
          ELSE IF diffHours >= DeadlineHorizonDays * HoursPerDay THEN 400
          ELSE Max(200, 1000 - (1000 * diffHours) \div (DeadlineHorizonDays * HoursPerDay))

\* scoreOpportunity({topicHits, domainTrust, deadline}): relevance.toFixed(2),
\* in hundredths
ScoreOpportunity(topicHits, domainTrust, deadline, t) ==
  LET topicScore == Min(1000, (1000 * Len(topicHits)) \div TopicsForFullScore)
      deadlineScore == ComputeDeadlineScore(deadline, t)
  IN (topicScore * 6 + domainTrust * 20 + deadlineScore * 2 + 50) \div 100

\* extractAgency($, hostname, text): the samples carry no agency markup
ExtractAgency(in) == Hostname(in.url)

\* (mutant) a location hint raises the trust of the page's domain
DomainTrustWithLocalBoost(in) ==
  IF in.locationHint # <<>> THEN 100 ELSE ComputeDomainTrust(Hostname(in.url))

\* line 708
DomainTrustOf(in) == ComputeDomainTrust(Hostname(in.url))

\* the result of a failed stage
NotGrant == [isGrant |-> FALSE]

\* lines 707-767: the record of an accepted page
BuildRecord(in, z, t) ==
  LET response_deadline == ParseDeadline(in.deadline, z)
      hostname == Hostname(in.url)
      source == IF hostname # "" THEN hostname ELSE "web-scraped"
      title == IF TitleOf(in) # "" THEN TitleOf(in)
               ELSE IF in.description # "" THEN in.description
               ELSE "Untitled Opportunity"
      loc == SplitLocation(in.locationHint)
  IN [isGrant |-> TRUE,
      id |-> CreateStableId(in.url),
      source |-> source,
      source_record_url |-> in.url,
      title |-> title,
      summary |-> in.description,
      agency |-> ExtractAgency(in),
      response_deadline |-> response_deadline,
      posted_date |-> "", naics |-> "", psc |-> "", set_aside |-> "",
      pop_city |-> loc.city,
      pop_state |-> loc.state,
      pop_zip |-> "",
      pop_country |-> IF loc.city # "" \/ loc.state # "" THEN "US" ELSE "",
      poc_name |-> "", poc_email |-> "", poc_phone |-> "",
      award_number |-> "",
      award_amount |-> in.amount,
      award_date |-> "", award_awardee |-> "",
      relevance_score |-> ScoreOpportunity(in.topicHits, DomainTrustOf(in),
                                           response_deadline, t),
      topic_hits |-> in.topicHits,
      created_at |-> t,
      raw_data |-> [url |-> in.url, title |-> TitleOf(in),
                    description |-> in.description,
                    featureHits |-> in.featureHits, topic_hits |-> in.topicHits,
                    response_deadline |-> response_deadline,
                    award_amount |-> in.amount, agency |-> ExtractAgency(in)]]

\* csv.js: the canonical columns
CSV_HEADERS ==
  {"id", "source", "source_record_url", "title", "summary", "agency",
   "posted_date", "response_deadline", "naics", "psc", "set_aside", "pop_city",
   "pop_state", "pop_zip", "pop_country", "poc_name", "poc_email", "poc_phone",
   "award_number", "award_amount", "award_date", "award_awardee",
   "relevance_score", "topic_hits", "created_at", "raw_data", "requirements"}

\* analyzeGrantPage as a function of its argument, the zone and the instant
AnalyzeGrantPage(in, z, t) ==
  IF \A k \in 1..Len(Stages) : StagePasses(Stages[k], in, z, t)
    THEN BuildRecord(in, z, t)
    ELSE NotGrant

\* the records other scrapers hand to hydrateRecord
OtherRecords ==
  [id : {"", "ovw-2025-01"}, title : {"", "OVW Transitional Housing"},
   source : {"", "justice.gov"},
   source_record_url : {"", BadUrl, GovUrl}, agency : {""}]

\* (mutant) hydrateRecord hands the record on as it is
HydrateRecordAsIs(record) == record

\* hydrateRecord(record)
HydrateRecord(record) ==
  LET url == record.source_record_url
      parsed == url # "" /\ url # BadUrl
      source1 == IF parsed /\ record.source = "" THEN Hostname(url)
                                                 ELSE record.source
      id1 == IF parsed /\ record.id = "" THEN CreateStableId(url) ELSE record.id
      source2 == IF source1 = "" THEN "web-scraped" ELSE source1
      source3 == IF source2 = "" THEN "unknown" ELSE source2
      id2 == IF id1 = "" THEN CreateStableId("opportunity-unknown") ELSE id1
      title2 == IF record.title = "" THEN "Untitled Opportunity" ELSE record.title
  IN [record EXCEPT !.id = id2, !.source = source3, !.title = title2]

(***************************************************************************)
(* The web scraper: one candidate page, from the call to the saved record  *)
(***************************************************************************)
\* evaluateCandidate line 415: the call
AnalyzeCall(in, z, hour) ==
  /\ stage = "idle"
  /\ input' = in
  /\ zone' = z
  /\ wallClock' = Today * HoursPerDay + hour - z
  /\ stage' = Stages[1]
  /\ UNCHANGED <<evaluated, analysis, saved>>

\* analyzeGrantPage: the k-th stage; a failed stage returns at once, the
\* last stage passed returns the record
EvaluateStage(k) ==
  /\ stage = Stages[k]
  /\ evaluated' = Append(evaluated, Stages[k])
  /\ IF ~StagePasses(Stages[k], input, zone, wallClock)
       THEN analysis' = Some(NotGrant) /\ stage' = "done"
       ELSE IF k = Len(Stages)
         THEN analysis' = Some(BuildRecord(input, zone, wallClock)) /\ stage' = "done"
         ELSE UNCHANGED analysis /\ stage' = Stages[k + 1]
  /\ UNCHANGED <<input, zone, wallClock, saved>>

\* /api/fetch-local lines 1431-1456: an accepted candidate is hydrated and
\* saved
SaveAnalysed ==
  /\ stage = "done"
  /\ saved = None
  /\ analysis # None
  /\ analysis[1].isGrant
  /\ saved' = Some(HydrateRecord(analysis[1]))
  /\ UNCHANGED <<input, zone, wallClock, stage, evaluated, analysis>>

\* lines 1495-1515: a record of another scraper is hydrated and saved
SaveOther(record) ==
  /\ stage = "idle"
  /\ saved = None
  /\ saved' = Some(HydrateRecord(record))
  /\ stage' = "done"
  /\ UNCHANGED <<input, zone, wallClock, evaluated, analysis>>

(***************************************************************************)
(* fetchPageHtml                                                           *)
(***************************************************************************)
FetchAttempts == 3
RateLimitBackoffMs == 600
ErrorBackoffMs == 400

PdfUrl == "https://ovc.ojp.gov/funding/nofo.pdf"

\* what axios.get can end with: a 2xx response with a content type, a
\* response with an error status, or no response at all (status 0: timeout)
HtmlResponses ==
  [status : {200}, contentType : {"text/html", "application/pdf", ""}]
    \cup [status : {404, 403, 429, 500, 503, 0}, contentType : {""}]

IsPdfContent(url, contentType) ==
  contentType = "application/pdf" \/ url = PdfUrl

PageResult(kind) == Some([kind |-> kind])

FetchPageHtmlCall(url) ==
  /\ fhPc = "idle"
  /\ fhPc' = "request"
  /\ fhUrl' = url
  /\ fhAttempt' = 0
  /\ fhResponses' = <<>>
  /\ fhDelays' = <<>>
  /\ fhResult' = None

IsRateLimited(response) == response.status = 429

\* one iteration of the loop: the request, and what follows its outcome
FetchPageHtmlAttempt(response) ==
  /\ fhPc = "request"
  /\ fhResponses' = Append(fhResponses, response)
  /\ UNCHANGED fhUrl
  /\ IF response.status = 200
       THEN /\ fhResult' = IF IsPdfContent(fhUrl, response.contentType)
                             THEN PageResult("pdf") ELSE PageResult("page")
            /\ fhPc' = "done"
            /\ UNCHANGED <<fhAttempt, fhDelays>>
     ELSE IF response.status \in {404, 403}
       THEN /\ fhResult' = PageResult("null")
            /\ fhPc' = "done"
            /\ UNCHANGED <<fhAttempt, fhDelays>>
     ELSE IF IsRateLimited(response)
       THEN /\ fhDelays' = Append(fhDelays, (fhAttempt + 1) * RateLimitBackoffMs)
            /\ fhAttempt' = fhAttempt + 1
            /\ IF fhAttempt + 1 < FetchAttempts
                 THEN fhPc' = "request" /\ UNCHANGED fhResult
                 ELSE fhPc' = "done" /\ fhResult' = PageResult("null")
     ELSE IF fhAttempt = FetchAttempts - 1
       THEN /\ fhResult' = PageResult("thrown")
            /\ fhPc' = "done"
            /\ UNCHANGED <<fhAttempt, fhDelays>>
     ELSE /\ fhDelays' = Append(fhDelays, (fhAttempt + 1) * ErrorBackoffMs)
          /\ fhAttempt' = fhAttempt + 1
          /\ fhPc' = "request"
          /\ UNCHANGED fhResult

(***************************************************************************)
(* dedup index, selection                                                  *)
(***************************************************************************)
MaxSerpResults == 2
MaxLimit == 2
MaxSelect == 3

\* String.prototype.toLowerCase on the sample texts
Lower(text) ==
  CASE text = "FY 2025 Services for Victims of Human Trafficking"
         -> "fy 2025 services for victims of human trafficking"
    [] text = "OVW Transitional Housing" -> "ovw transitional housing"
    [] text = "OVW TRANSITIONAL HOUSING" -> "ovw transitional housing"
    [] text = "OVW Legal Assistance" -> "ovw legal assistance"
    [] text = "Office on Violence Against Women" -> "office on violence against women"
    [] OTHER -> text

\* normalizeKey(title, agency, deadline): the three parts of the key
NormalizeKey(title, agency, deadline) ==
  <<Lower(NormalizeText(title)), Lower(NormalizeText(agency)), deadline>>

KeyOf(record) ==
  NormalizeKey(record.title, record.agency, record.response_deadline)

EmptyIndex == [urlSet |-> {}, keySet |-> {}]

\* readCsvIndex and getDbIndex over the persisted rows
IndexOf(rows) ==
  [urlSet |-> {rows[i].source_record_url : i \in 1..Len(rows)} \ {""},
   keySet |-> {KeyOf(rows[i]) : i \in 1..Len(rows)}]

\* a missing opportunity (null)
NoOpportunity == [isNull |-> TRUE]

\* (mutant) only the URL is looked up
ShouldSkipByUrlOnly(opportunity, sets) ==
  IF opportunity = NoOpportunity THEN TRUE
  ELSE opportunity.source_record_url # ""
         /\ opportunity.source_record_url \in sets.urlSet

\* shouldSkipOpportunity(opportunity, { urlSet, keySet })
ShouldSkipOpportunity(opportunity, sets) ==
  IF opportunity = NoOpportunity THEN TRUE
  ELSE IF opportunity.source_record_url # ""
            /\ opportunity.source_record_url \in sets.urlSet THEN TRUE
  ELSE IF KeyOf(opportunity) \in sets.keySet THEN TRUE
  ELSE FALSE

IsDated(record) == record.response_deadline # None

\* (mutant) equal deadlines fall back to increasing relevance
CompareAscendingRelevance(a, b) ==
  IF IsDated(a) /\ IsDated(b)
    THEN LET diff == DateOf(a.response_deadline[1]) - DateOf(b.response_deadline[1])
         IN IF diff # 0 THEN diff ELSE a.relevance_score - b.relevance_score
  ELSE IF IsDated(a) THEN -1
  ELSE IF IsDated(b) THEN 1
  ELSE a.relevance_score - b.relevance_score

\* selectTopOpportunities: the comparator; negative when a sorts before b
Compare(a, b) ==
  IF IsDated(a) /\ IsDated(b)
    THEN LET diff == DateOf(a.response_deadline[1]) - DateOf(b.response_deadline[1])
         IN IF diff # 0 THEN diff ELSE b.relevance_score - a.relevance_score
  ELSE IF IsDated(a) THEN -1
  ELSE IF IsDated(b) THEN 1
  ELSE b.relevance_score - a.relevance_score

\* Array.prototype.sort is stable: x goes before the first element it
\* sorts strictly before
RECURSIVE InsertSorted(_, _)
InsertSorted(x, sorted) ==
  IF sorted = <<>> THEN <<x>>
  ELSE IF Compare(x, Head(sorted)) < 0 THEN <<x>> \o sorted
  ELSE <<Head(sorted)>> \o InsertSorted(x, Tail(sorted))

RECURSIVE SortByComparator(_)
SortByComparator(list) ==
  IF list = <<>> THEN <<>>
  ELSE InsertSorted(list[Len(list)], SortByComparator(SubSeq(list, 1, Len(list) - 1)))

\* (mutant) one record too many
SliceInclusive(list, end) == SubSeq(list, 1, Min(end + 1, Len(list)))

\* Array.prototype.slice(0, end), for end >= 0
Slice(list, end) == SubSeq(list, 1, Min(end, Len(list)))

SelectTopOpportunities(list, lim) ==
  Slice(SortByComparator(list), lim)

(***************************************************************************)
(* scrape runs                                                             *)
(***************************************************************************)
\* the link of GovUrl as a search result may spell it
GovUrlUpper == "HTTPS://OVC.OJP.GOV/funding/fy-2025-victim-services"

SerpLinks == {GovUrl, GovUrlUpper, GovUrl2, TrustedUrl, MilUrl, OtherUrl, BadUrl}

\* new URL(link).href: None when the constructor throws
NormalizeUrl(link) ==
  IF link = BadUrl THEN None
  ELSE IF link = GovUrlUpper THEN Some(GovUrl)
  ELSE Some(link)

\* the pages the sample sites serve: a dated grant page under two addresses,
\* an undated grant page with an award amount, and a page on no topic
GrantTitle == "FY 2025 Services for Victims of Human Trafficking"
PageAt(url) ==
  IF url = TrustedUrl
    THEN Page(<<url, "<html>">>, GrantTitle, <<FALSE, FALSE, FALSE>>,
              <<"human trafficking">>, <<"apply", "eligibility">>, None,
              [amount |-> "50000", signals |-> "none"], <<>>)
  ELSE IF url = MilUrl
    THEN Page(<<url, "<html>">>, GrantTitle, <<FALSE, FALSE, FALSE>>,
              <<>>, <<"apply", "eligibility">>, None,
              [amount |-> "", signals |-> "none"], <<>>)
  ELSE Page(<<url, "<html>">>, GrantTitle, <<FALSE, FALSE, FALSE>>,
            <<"human trafficking">>, <<"apply", "eligibility">>,
            Some([form |-> "iso", day |-> Today + 1]),
            [amount |-> "", signals |-> "none"], <<>>)

\* ovw-scraper.js: the links of the list page, and the record made of one
OvwUrl1 == "https://www.justice.gov/ovw/media/1001"
OvwUrl2 == "https://www.justice.gov/ovw/media/1002"
OvwUrl3 == "https://www.justice.gov/ovw/media/1003"
Nofos ==
  { [url |-> OvwUrl1, title |-> "OVW Transitional Housing", deadline |-> Some(Today + 30)],
    [url |-> OvwUrl2, title |-> "OVW TRANSITIONAL HOUSING", deadline |-> Some(Today + 30)],
    [url |-> OvwUrl3, title |-> "OVW Legal Assistance", deadline |-> None] }

OvwOpportunity(nofo) ==
  [isGrant |-> TRUE, id |-> CreateStableId(nofo.url), source |-> "justice.gov",
   source_record_url |-> nofo.url, title |-> nofo.title,
   agency |-> "Office on Violence Against Women",
   response_deadline |-> nofo.deadline, relevance_score |-> 85]

\* what the CSV and the database can hold before a run
PersistedRows ==
  { <<>>,
    <<AnalyzeGrantPage(PageAt(GovUrl), 0, (Today - 1) * HoursPerDay)>>,
    <<OvwOpportunity([url |-> OvwUrl1, title |-> "OVW Transitional Housing",
                      deadline |-> Some(Today + 30)])>> }

RECURSIVE SeqsUpTo(_, _)
SeqsUpTo(S, n) ==
  IF n = 0 THEN {<<>>}
  ELSE LET shorter == SeqsUpTo(S, n - 1)
       IN shorter \cup {Append(q, x) : q \in shorter, x \in S}

\* /api/scrape-local-grants up to the first candidate
ScrapeLocalStart(lim, rows, links) ==
  /\ runPc = "idle"
  /\ route' = "local"
  /\ limit' = lim
  /\ persisted' = IndexOf(rows)
  /\ dedupeSets' = IndexOf(rows)
  /\ serp' = links
  /\ queue' = links
  /\ runPc' = "next"
  /\ UNCHANGED <<current, netLog, collected, selected, lastSkip, runSaved>>

\* collectLocalOpportunities: no candidate is left
CollectDone ==
  /\ route = "local"
  /\ runPc = "next"
  /\ queue = <<>>
  /\ runPc' = "collected"
  /\ UNCHANGED <<route, limit, serp, queue, current, persisted, dedupeSets,
                 netLog, collected, selected, lastSkip, runSaved>>

\* (mutant) the seen-URL set is not consulted before the fetch
PassesAllowListOnly(url, sets) == IsAllowedDomain(Hostname(url))

\* evaluateCandidate: the checks made on the normalized URL before any request
PassesPreFetchChecks(url, sets) ==
  /\ IsAllowedDomain(Hostname(url))
  /\ url \notin sets.urlSet

\* evaluateCandidate up to the robots check
CandidateCheck ==
  /\ route = "local"
  /\ runPc = "next"
  /\ queue # <<>>
  /\ LET normalizedUrl == NormalizeUrl(Head(queue))
     IN IF normalizedUrl # None /\ PassesPreFetchChecks(normalizedUrl[1], dedupeSets)
          THEN /\ current' = normalizedUrl
               /\ runPc' = "robots"
               /\ UNCHANGED queue
          ELSE /\ queue' = Tail(queue)
               /\ UNCHANGED <<current, runPc>>
  /\ UNCHANGED <<route, limit, serp, persisted, dedupeSets, netLog, collected,
                 selected, lastSkip, runSaved>>

\* evaluateCandidate: isAllowedByRobots, which consults the site's robots.txt
CandidateRobots(allowed) ==
  /\ route = "local"
  /\ runPc = "robots"
  /\ netLog' = Append(netLog, [kind |-> "robots", url |-> current[1]])
  /\ IF allowed
       THEN runPc' = "fetch" /\ UNCHANGED <<queue, current>>
       ELSE runPc' = "next" /\ queue' = Tail(queue) /\ current' = None
  /\ UNCHANGED <<route, limit, serp, persisted, dedupeSets, collected, selected,
                 lastSkip, runSaved>>

\* evaluateCandidate from fetchPageHtml on, and the caller's loop body
CandidateFetch(outcome) ==
  /\ route = "local"
  /\ runPc = "fetch"
  /\ netLog' = Append(netLog, [kind |-> "page", url |-> current[1]])
  /\ current' = None
  /\ queue' = Tail(queue)
  /\ LET opportunity == AnalyzeGrantPage(PageAt(current[1]), zone, wallClock)
     IN IF outcome = "thrown"
          THEN /\ runPc' = "failed"
               /\ UNCHANGED <<dedupeSets, collected, lastSkip>>
        ELSE IF outcome # "page" \/ ~opportunity.isGrant
          THEN /\ runPc' = "next"
               /\ UNCHANGED <<dedupeSets, collected, lastSkip>>
        ELSE /\ lastSkip' = Some([opportunity |-> opportunity, sets |-> dedupeSets,
                                  skipped |-> ShouldSkipOpportunity(opportunity, dedupeSets)])
             /\ IF ShouldSkipOpportunity(opportunity, dedupeSets)
                  THEN /\ runPc' = "next"
                       /\ UNCHANGED <<dedupeSets, collected>>
                  ELSE /\ dedupeSets' =
                            [urlSet |-> dedupeSets.urlSet \cup {opportunity.source_record_url},
                             keySet |-> dedupeSets.keySet \cup {KeyOf(opportunity)}]
                       /\ collected' = Append(collected, opportunity)
                       /\ runPc' = IF Len(collected) + 1 >= limit * 3
                                     THEN "collected" ELSE "next"
  /\ UNCHANGED <<route, limit, serp, persisted, selected, runSaved>>

\* /api/scrape-local-grants: selectTopOpportunities(candidates, limit)
RunSelect ==
  /\ runPc = "collected"
  /\ selected' = Some(SelectTopOpportunities(collected, limit))
  /\ runPc' = "selected"
  /\ UNCHANGED <<route, limit, serp, queue, current, persisted, dedupeSets,
                 netLog, collected, lastSkip, runSaved>>

\* the routes' hydration and save
RunSave ==
  /\ runPc = "selected"
  /\ runSaved' = Some([i \in 1..Len(selected[1]) |-> HydrateRecord(selected[1][i])])
  /\ runPc' = "saved"
  /\ UNCHANGED <<route, limit, serp, queue, current, persisted, dedupeSets,
                 netLog, collected, selected, lastSkip>>

\* /api/scrape-ovw and /api/scrape-acf up to the filter
ScrapeListStart(r, rows, nofos) ==
  /\ runPc = "idle"
  /\ route' = r
  /\ persisted' = IndexOf(rows)
  /\ dedupeSets' = IndexOf(rows)
  /\ queue' = [i \in 1..Len(nofos) |-> OvwOpportunity(nofos[i])]
  /\ runPc' = "scraped"
  /\ UNCHANGED <<limit, serp, current, netLog, collected, selected, lastSkip,
                 runSaved>>

\* opportunities.filter(opp => !shouldSkipOpportunity(opp, dedupeSets)), one
\* element at a time
RunFilterStep ==
  /\ runPc = "scraped"
  /\ queue # <<>>
  /\ LET skipped == ShouldSkipOpportunity(Head(queue), dedupeSets)
     IN /\ lastSkip' = Some([opportunity |-> Head(queue), sets |-> dedupeSets,
                             skipped |-> skipped])
        /\ collected' = IF skipped THEN collected ELSE Append(collected, Head(queue))
  /\ queue' = Tail(queue)
  /\ UNCHANGED <<route, runPc, limit, serp, current, persisted, dedupeSets,
                 netLog, selected, runSaved>>

RunFilterDone ==
  /\ runPc = "scraped"
  /\ queue = <<>>
  /\ selected' = Some(collected)
  /\ runPc' = "selected"
  /\ UNCHANGED <<route, limit, serp, queue, current, persisted, dedupeSets,
                 netLog, collected, lastSkip, runSaved>>

InitRunIdle ==
  /\ route = "none"
  /\ runPc = "idle"
  /\ limit = 0
  /\ serp = <<>>
  /\ queue = <<>>
  /\ current = None
  /\ persisted = EmptyIndex
  /\ dedupeSets = EmptyIndex
  /\ netLog = <<>>
  /\ collected = <<>>
  /\ selected = None
  /\ lastSkip = None
  /\ runSaved = None

InitHtmlIdle ==
  /\ fhPc = "idle"
  /\ fhUrl = ""
  /\ fhAttempt = 0
  /\ fhResponses = <<>>
  /\ fhDelays = <<>>
  /\ fhResult = None

InitCrawlIdle ==
  /\ InitHtmlIdle
  /\ InitRunIdle

InitScrapeIdle ==
  /\ input = NoInput
  /\ zone = 0
  /\ wallClock = Today * HoursPerDay
  /\ stage = "idle"
  /\ evaluated = <<>>
  /\ analysis = None
  /\ saved = None

(***************************************************************************)
(* The fetch client: a caller issuing fetchPage calls one after another    *)
(***************************************************************************)
InitClient ==
  /\ clock = ConstructedAt
  /\ lastRequestTime = 0
  /\ requestCount = 0
  /\ windowStartTime = ConstructedAt
  /\ pc = "idle"
  /\ attempt = 0
  /\ lastError = NoError
  /\ delayMs = -1
  /\ res = NoResult
  /\ thrown = NoError
  /\ calls = 0
  /\ admitted = <<>>
  /\ waited = 0
  /\ httpRequests = 0
  /\ sleeps = 0


\* a client of the default configuration that no caller is using
InitClientIdle == InitClient /\ requestsPerSecond = DefaultRps

InitPagerIdle ==
  /\ upstream = [mode |-> "any", hitCount |-> 0]
  /\ query = NoQuery
  /\ maxPages = None
  /\ faPc = "idle"
  /\ allResults = <<>>
  /\ startRecordNum = 0
  /\ pageCount = 0
  /\ hasMore = TRUE
  /\ returned = <<>>
  /\ sent = <<>>
  /\ lastPage = NoPage

InitPullIdle ==
  /\ checkpoint = None
  /\ options = NoOptions
  /\ pullPc = "idle"
  /\ sinceISO = None
  /\ opportunities = <<>>
  /\ rejects = <<>>
  /\ rejectsFile = None
  /\ jsonFile = None
  /\ csvFile = None
  /\ sqliteFile = None
  /\ result = None
  /\ checkpointBefore = None
  /\ failedAt = "none"

\* a client of any configured rate, with no fetchAll or pull in progress
Init ==
  /\ InitClient
  /\ requestsPerSecond \in 1..MaxRps
  /\ InitPagerIdle
  /\ InitPullIdle
  /\ InitScrapeIdle
  /\ InitCrawlIdle

\* a caller whose upstream may fail: every fetchPage call runs withRetry
\* against any sequence of results
Next ==
  \/ \E think \in RetryThinkTimes :
        calls < MaxRetriedCalls /\ FetchPageCall(think) /\ UNCHANGED <<pagerVars, pullVars, scrapeVars, crawlVars>>
  \/ \E r \in FetchResults : AttemptSucceeds(r) /\ UNCHANGED <<pagerVars, pullVars, scrapeVars, crawlVars>>
  \/ \E r \in FetchResults, jitter \in JitterValues :
        AttemptFails(r, jitter) /\ UNCHANGED <<pagerVars, pullVars, scrapeVars, crawlVars>>
  \/ ParseBody /\ UNCHANGED <<pagerVars, pullVars, scrapeVars, crawlVars>>

Spec == Init /\ [][Next]_vars

\* a caller issuing call after call against an upstream that answers at once:
\* the time between two calls is the caller's alone
NextRateLimit ==
  \/ \E think \in ThinkTimes :
        calls < MaxCalls /\ FetchPageCall(think) /\ UNCHANGED <<pagerVars, pullVars, scrapeVars, crawlVars>>
  \/ \E r \in FetchResults : AttemptSucceeds(r) /\ UNCHANGED <<pagerVars, pullVars, scrapeVars, crawlVars>>
  \/ ParseBody /\ UNCHANGED <<pagerVars, pullVars, scrapeVars, crawlVars>>

SpecRateLimit == Init /\ [][NextRateLimit]_vars

(***************************************************************************)
(* The paginator: one fetchAll call against an upstream result set         *)
(***************************************************************************)
\* the start offsets a query is drawn with: none, or a supplied one
StartValues == {None, Some(2)}

Queries ==
  { [NoQuery EXCEPT !.pageSize = ps, !.startRecordNum = st]
      : ps \in 0..MaxPageSize, st \in StartValues }

MaxPagesValues == {None} \cup {Some(n) : n \in 0..MaxMaxPages}

\* the pages an upstream that does not keep to the request may answer with
\* (an empty page, a short page, a full page, a page repeating a record)
AnyHits == {<<>>, <<1>>, <<1, 2>>, <<2, 2>>}
AnyPages == [hitCount : 0..MaxHits, oppHits : AnyHits]

FetchAllCall(q, mp) ==
  /\ faPc = "idle"
  /\ FetchAllEnter(q, mp)
  /\ UNCHANGED upstream

\* upstream holds upstream.hitCount records and serves the rows asked for
FetchAllFixed ==
  /\ upstream.mode = "fixed"
  /\ FetchAllPage(FixedPage(upstream.hitCount, BuildRequestBody(CurrentQuery)))

\* upstream answers with any page and any hit count
FetchAllAny(page) ==
  /\ upstream.mode = "any"
  /\ pageCount < MaxPagesServed
  /\ FetchAllPage(page)

FetchAllFails ==
  /\ upstream.mode = "any"
  /\ FetchAllThrows

InitFetchAll ==
  /\ InitClientIdle
  /\ InitPullIdle
  /\ InitScrapeIdle
  /\ InitCrawlIdle
  /\ upstream \in [mode : {"fixed", "any"}, hitCount : 0..MaxHits]
  /\ query = NoQuery
  /\ maxPages = None
  /\ faPc = "idle"
  /\ allResults = <<>>
  /\ startRecordNum = 0
  /\ pageCount = 0
  /\ hasMore = TRUE
  /\ returned = <<>>
  /\ sent = <<>>
  /\ lastPage = NoPage

NextFetchAll ==
  \/ \E q \in Queries, mp \in MaxPagesValues :
        FetchAllCall(q, mp) /\ UNCHANGED <<clientVars, pullVars, scrapeVars, crawlVars>>
  \/ FetchAllFixed /\ UNCHANGED <<clientVars, pullVars, scrapeVars, crawlVars>>
  \/ \E page \in AnyPages : FetchAllAny(page) /\ UNCHANGED <<clientVars, pullVars, scrapeVars, crawlVars>>
  \/ FetchAllFails /\ UNCHANGED <<clientVars, pullVars, scrapeVars, crawlVars>>

SpecFetchAll == InitFetchAll /\ [][NextFetchAll]_vars

(***************************************************************************)
(* One pull run, started with or without a stored checkpoint               *)
(***************************************************************************)
\* the checkpoint an earlier successful run left: an instant before this
\* client was constructed
EarlierRun == ConstructedAt - windowMs

InitPull ==
  /\ InitClientIdle
  /\ InitPagerIdle
  /\ InitScrapeIdle
  /\ InitCrawlIdle
  /\ checkpoint \in {None, Some(EarlierRun)}
  /\ options = NoOptions
  /\ pullPc = "idle"
  /\ sinceISO = None
  /\ opportunities = <<>>
  /\ rejects = <<>>
  /\ rejectsFile = None
  /\ jsonFile = None
  /\ csvFile = None
  /\ sqliteFile = None
  /\ result = None
  /\ checkpointBefore = None
  /\ failedAt = "none"

NextPull ==
  \/ \E opts \in OptionsSet, configOk \in BOOLEAN :
        PullStart(opts, configOk) /\ UNCHANGED <<clientVars, scrapeVars, crawlVars>>
  \/ \E page \in PullPages : PullFetchPage(page) /\ UNCHANGED <<clientVars, scrapeVars, crawlVars>>
  \/ PullFetchThrows /\ UNCHANGED <<clientVars, scrapeVars, crawlVars>>
  \/ PullTransform /\ UNCHANGED <<clientVars, scrapeVars, crawlVars>>
  \/ \E ok \in BOOLEAN : PullWriteRejects(ok) /\ UNCHANGED <<clientVars, scrapeVars, crawlVars>>
  \/ \E ok \in BOOLEAN : PullWriteJson(ok) /\ UNCHANGED <<clientVars, scrapeVars, crawlVars>>
  \/ \E ok \in BOOLEAN : PullWriteCsv(ok) /\ UNCHANGED <<clientVars, scrapeVars, crawlVars>>
  \/ \E ok \in BOOLEAN : PullWriteSqlite(ok) /\ UNCHANGED <<clientVars, scrapeVars, crawlVars>>
  \/ \E ok \in BOOLEAN : PullWriteCheckpoint(ok) /\ UNCHANGED <<clientVars, scrapeVars, crawlVars>>

SpecPull == InitPull /\ [][NextPull]_vars

(***************************************************************************)
(* The scraper alone, and the pipeline running one of its two paths        *)
(***************************************************************************)
InitScrape ==
  /\ InitClientIdle
  /\ InitPagerIdle
  /\ InitPullIdle
  /\ InitScrapeIdle
  /\ InitCrawlIdle

NextScrape ==
  \/ /\ stage = "idle"
     /\ \E in \in Pages, z \in Zones, hour \in LocalHours : AnalyzeCall(in, z, hour)
     /\ UNCHANGED <<clientVars, pagerVars, pullVars, crawlVars>>
  \/ \E k \in 1..Len(Stages) :
        EvaluateStage(k) /\ UNCHANGED <<clientVars, pagerVars, pullVars, crawlVars>>
  \/ SaveAnalysed /\ UNCHANGED <<clientVars, pagerVars, pullVars, crawlVars>>
  \/ /\ stage = "idle"
     /\ \E record \in OtherRecords : SaveOther(record)
     /\ UNCHANGED <<clientVars, pagerVars, pullVars, crawlVars>>

SpecScrape == InitScrape /\ [][NextScrape]_vars

\* either the API path (one pull) or the scrape path (one candidate) runs
NextPipeline ==
  \/ stage = "idle" /\ saved = None /\ NextPull
  \/ pullPc = "idle" /\ NextScrape

SpecPipeline == InitPull /\ [][NextPipeline]_vars

\* one call of fetchPageHtml against a server that answers anything
NextFetchHtml ==
  \/ \E url \in {GovUrl, PdfUrl} :
        FetchPageHtmlCall(url) /\ UNCHANGED <<clientVars, pagerVars, pullVars, scrapeVars, runVars>>
  \/ \E response \in HtmlResponses :
        FetchPageHtmlAttempt(response) /\ UNCHANGED <<clientVars, pagerVars, pullVars, scrapeVars, runVars>>

SpecFetchHtml == InitScrape /\ [][NextFetchHtml]_vars

\* one scrape run of one of the three routes
otherVars == <<clientVars, pagerVars, pullVars, scrapeVars, htmlVars>>
FetchOutcomes == {"page", "pdf", "null", "thrown"}

NextCrawl ==
  \/ /\ runPc = "idle"
     /\ \E lim \in 1..MaxLimit, rows \in PersistedRows,
           links \in SeqsUpTo(SerpLinks, MaxSerpResults) :
          ScrapeLocalStart(lim, rows, links)
     /\ UNCHANGED otherVars
  \/ CollectDone /\ UNCHANGED otherVars
  \/ CandidateCheck /\ UNCHANGED otherVars
  \/ \E allowed \in BOOLEAN : CandidateRobots(allowed) /\ UNCHANGED otherVars
  \/ \E outcome \in FetchOutcomes : CandidateFetch(outcome) /\ UNCHANGED otherVars
  \/ RunSelect /\ UNCHANGED otherVars
  \/ RunSave /\ UNCHANGED otherVars
  \/ /\ runPc = "idle"
     /\ \E r \in {"ovw", "acf"}, rows \in PersistedRows,
           nofos \in SeqsUpTo(Nofos, MaxSerpResults) :
          ScrapeListStart(r, rows, nofos)
     /\ UNCHANGED otherVars
  \/ RunFilterStep /\ UNCHANGED otherVars
  \/ RunFilterDone /\ UNCHANGED otherVars

SpecCrawl == InitScrape /\ [][NextCrawl]_vars

\* selectTopOpportunities applied to lists of sample candidates
SelectSamples ==
  { [id |-> "a", response_deadline |-> Some(Today + 1), relevance_score |-> 60],
    [id |-> "b", response_deadline |-> Some(Today + 1), relevance_score |-> 80],
    [id |-> "c", response_deadline |-> Some(Today + 2), relevance_score |-> 90],
    [id |-> "d", response_deadline |-> None, relevance_score |-> 95],
    [id |-> "e", response_deadline |-> None, relevance_score |-> 50] }

InitSelect ==
  /\ InitClientIdle
  /\ InitPagerIdle
  /\ InitPullIdle
  /\ InitScrapeIdle
  /\ InitHtmlIdle
  /\ route = "local"
  /\ runPc = "collected"
  /\ limit \in 0..MaxLimit
  /\ serp = <<>>
  /\ queue = <<>>
  /\ current = None
  /\ persisted = EmptyIndex
  /\ dedupeSets = EmptyIndex
  /\ netLog = <<>>
  /\ collected \in SeqsUpTo(SelectSamples, MaxSelect)
  /\ selected = None
  /\ lastSkip = None
  /\ runSaved = None

NextSelect == RunSelect /\ UNCHANGED otherVars

SpecSelect == InitSelect /\ [][NextSelect]_vars

(***************************************************************************)
(* Claims about the fetch client                                           *)
(***************************************************************************)
\* errors that come out of withRetry (an HTTP error or a rejected fetch)
RetryErrors == {"HTTP", "fetch failed"}
\* bodies of an ok response that fetchPage's parsing refuses
MalformedBodies == {"nonJson", "badJson", "errorcode", "missingOppHits", "unrecognized"}

\* C1: withRetry, with tries = 5, makes at most 5 HTTP requests for one page;
\* it stops at the first successful response (no request follows it), and
\* when all 5 attempts fail it throws the error of the last attempt, having
\* slept only between attempts (4 sleeps, none after the last attempt).
C1_RetryBudget ==
  /\ httpRequests <= tries
  /\ (pc = "withRetry" => ~res.ok /\ httpRequests = attempt - 1 /\ sleeps = httpRequests)
  /\ (res.ok => pc \in {"parse", "returned", "thrown"} /\ sleeps = httpRequests - 1)
  /\ (pc = "thrown" /\ ~res.ok =>
        /\ httpRequests = tries
        /\ thrown = ErrorOf(res)
        /\ sleeps = tries - 1)

\* C1 witness: all five attempts failed, the last with a 500, and that error
\* was thrown
C1_Witness ==
  /\ pc = "thrown"
  /\ httpRequests = tries
  /\ res.status = 500
  /\ thrown.status = 500

\* C2: after failed attempt k < tries the client sleeps exactly the wait hint
\* (Retry-After seconds x 1000) when the failed response carries one, and
\* baseMs * 2^(k-1) plus a jitter in [0, 100) otherwise.
C2_HonorsWaitHint ==
  (pc = "withRetry" /\ httpRequests >= 1) =>
     IF res.retryAfter # NoHeader
       THEN delayMs = ParseInt(res.retryAfter) * 1000
       ELSE delayMs - baseMs * Pow2(httpRequests - 1) \in 0..(JitterSpan - 1)

\* C3: a page request answered 404 or 403 is never retried: fetchPage has
\* made exactly one request and has failed.
PermanentStatuses == {403, 404}
C3_PermanentNotRetried ==
  (res.type = "response" /\ res.status \in PermanentStatuses) =>
    /\ pc = "thrown"
    /\ thrown = ErrorOf(res)
    /\ sleeps = httpRequests - 1
    /\ (lastError.status \in PermanentStatuses => httpRequests = 1)

\* C4: an ok response with a malformed body (non-JSON, errorcode # 0, missing
\* oppHits, unrecognized shape) makes fetchPage fail at once: the parsing
\* step throws, and makes no further request and no backoff sleep.
C4_MalformedFailsImmediately ==
  [][(pc = "parse" /\ res.body \in MalformedBodies) =>
       /\ pc' = "thrown"
       /\ thrown'.message \notin RetryErrors \cup {"none"}
       /\ httpRequests' = httpRequests
       /\ sleeps' = sleeps
       /\ clock' = clock]_vars

\* C4 witness: fetchPage has thrown on an API error body after two failed
\* attempts and one ok response
C4_Witness ==
  /\ pc = "thrown"
  /\ res.body = "errorcode"
  /\ thrown.message = "API error"
  /\ httpRequests = 3
  /\ sleeps = 2

\* C5: rateLimit never rejects a call, and the calls it admits keep both
\* bounds: two consecutive admissions are at least 1000 / requestsPerSecond ms
\* apart, and no rolling window of 1000 ms holds more than requestsPerSecond
\* admissions (any requestsPerSecond + 1 of them span at least 1000 ms).
C5_RateBounds ==
  /\ Len(admitted) = calls
  /\ \A i \in 1..(Len(admitted) - 1) :
       (admitted[i + 1] - admitted[i]) * requestsPerSecond >= msPerSecond
  /\ \A i, j \in 1..Len(admitted) :
       j - i >= requestsPerSecond => admitted[j] - admitted[i] >= windowMs

\* C5 witness: a caller faster than the limit was delayed: more calls than
\* requestsPerSecond were admitted, the latest after a wait, and they were all
\* issued within less than two windows
C5_Witness ==
  /\ Len(admitted) > requestsPerSecond
  /\ requestsPerSecond > 1
  /\ waited > 0
  /\ admitted[Len(admitted)] - admitted[1] < 2 * windowMs

(***************************************************************************)
(* Claims about the paginator                                              *)
(***************************************************************************)
\* ceil(n / p) page requests, one when n = 0
PagesFor(n, p) == Max(1, CeilDiv(n, p))

\* C6: against an upstream that reports a fixed hit count N and serves pages
\* of size P from offset 0, fetchAll without maxPages never fails, makes at
\* most ceil(N / P) page requests while it runs (so it terminates), has made
\* exactly ceil(N / P) of them (one when N = 0) when it returns, and returns
\* the records 1..N in order.
C6_FixedUpstreamPagination ==
  (upstream.mode = "fixed" /\ faPc # "idle" /\ ~IsSome(maxPages)
     /\ ~IsSome(query.startRecordNum)) =>
    /\ faPc # "thrown"
    /\ (faPc = "loop" => Len(sent) < PagesFor(upstream.hitCount, PageSizeOf(query)))
    /\ (faPc = "done" =>
          /\ Len(sent) = PagesFor(upstream.hitCount, PageSizeOf(query))
          /\ returned = Range(1, upstream.hitCount))
    /\ \A i \in 1..Len(sent) :
          sent[i].startRecordNum = (i - 1) * PageSizeOf(query)

\* C6 witness: 5 records in pages of 2 were fetched in 3 requests
C6_Witness ==
  /\ upstream.mode = "fixed"
  /\ upstream.hitCount = 5
  /\ query.pageSize = 2
  /\ ~IsSome(maxPages)
  /\ ~IsSome(query.startRecordNum)
  /\ faPc = "done"
  /\ Len(sent) = 3
  /\ returned = <<1, 2, 3, 4, 5>>

\* after a page: fetchAll goes on to request a further page
RequestsFurtherPage == faPc = "loop"
AfterAPage == faPc \in {"loop", "done"} /\ pageCount >= 1

\* C7 as stated: after each page fetchAll requests a further page if and only
\* if the page held at least one record and the running total of records is
\* below the reported hit count (and maxPages is not reached).
C7_RunningTotal ==
  AfterAPage =>
    (RequestsFurtherPage <=>
       /\ Len(lastPage.hits) >= 1
       /\ Len(allResults) < lastPage.hitCount
       /\ ~HitMaxPages(pageCount))

\* C7 amended: after each page fetchAll requests a further page if and only
\* if the page held at least one record and the next start offset (the offset
\* of the page just requested plus pageSize) is below the reported hit count
\* (and maxPages is not reached); it stops after an empty page and after a
\* page whose end reaches the hit count.
C7_NextOffset ==
  AfterAPage =>
    /\ (RequestsFurtherPage <=>
          /\ Len(lastPage.hits) >= 1
          /\ lastPage.start + PageSizeOf(query) < lastPage.hitCount
          /\ ~HitMaxPages(pageCount))
    /\ (RequestsFurtherPage => startRecordNum = lastPage.start + PageSizeOf(query))
    /\ (Len(lastPage.hits) = 0 => faPc = "done")

\* C7 witness: fetchAll stopped after a non-empty page although the running
\* total was below the hit count and maxPages was not reached: the next
\* offset had reached the hit count
C7_Witness ==
  /\ faPc = "done"
  /\ pageCount >= 2
  /\ Len(lastPage.hits) >= 1
  /\ Len(allResults) < lastPage.hitCount
  /\ ~HitMaxPages(pageCount)
  /\ lastPage.start + PageSizeOf(query) >= lastPage.hitCount

\* C8: maxPages is a hard cap: whatever value is supplied and whatever
\* upstream does, fetchAll issues no more than maxPages page requests.
C8_MaxPagesHardCap ==
  IsSome(maxPages) => Len(sent) <= maxPages[1]

(***************************************************************************)
(* Claims about pull and its checkpoint                                    *)
(***************************************************************************)
\* C9: pull writes the checkpoint only after every earlier step of the run
\* has completed without error (pages fetched, records transformed, rejects
\* file written when there are rejects, JSON and CSV and the optional SQLite
\* output written); in a run that has not completed, and so in every run in
\* which one of those steps failed, the stored checkpoint is the one the run
\* began with.
C9_CheckpointAfterFullSuccess ==
  pullPc # "idle" =>
    /\ (pullPc # "returned" => checkpoint = checkpointBefore)
    /\ (checkpoint # checkpointBefore =>
          /\ pullPc = "returned"
          /\ faPc = "done"
          /\ opportunities = Accepted(Dedupe(returned))
          /\ rejects = Rejected(Dedupe(returned))
          /\ (rejects # <<>> => rejectsFile = Some(rejects))
          /\ jsonFile = Some(opportunities)
          /\ csvFile = Some(opportunities)
          /\ (options.sqlite => sqliteFile = Some(opportunities))
          /\ checkpoint = Some(NowISO))

\* C9 witness: a run that began with a stored checkpoint wrote its JSON and
\* CSV outputs and then failed writing the SQLite output: the checkpoint is
\* still the stored one
C9_Witness ==
  /\ pullPc = "failed"
  /\ failedAt = "writeSqlite"
  /\ IsSome(checkpointBefore)
  /\ IsSome(jsonFile)
  /\ IsSome(csvFile)
  /\ checkpoint = checkpointBefore

\* the fields of a request body that could carry a lower date bound
DateBoundFields == {"since", "postedFrom", "postedDateFrom", "dateRange"}
BoundedBy(body, t) == \E f \in DOMAIN body \cap DateBoundFields : body[f] = t
Unbounded(body) == DOMAIN body \cap DateBoundFields = {}

\* C10: when pull runs without the since option and a checkpoint exists,
\* every page request of the run is bounded by checkpoint.lastSuccessfulRun;
\* without a checkpoint the requests are unbounded.
C10_RequestsBoundedByCheckpoint ==
  (pullPc # "idle" /\ ~IsSome(options.since)) =>
    \A i \in 1..Len(sent) :
      IF IsSome(checkpointBefore)
        THEN BoundedBy(sent[i], checkpointBefore[1])
        ELSE Unbounded(sent[i])

(***************************************************************************)
(* Claims about pull's error handling and its accepted set                 *)
(***************************************************************************)
\* the steps of pull after the transform loop
WriteSteps == {"writeRejects", "writeJson", "writeCsv", "writeSqlite", "writeCheckpoint"}
\* the transform loop of this run has run to its end
Transformed ==
  \/ pullPc \in WriteSteps \cup {"returned"}
  \/ pullPc = "failed" /\ failedAt \in WriteSteps

\* C11: when the checkpoint write at the end of a pull fails, the pull fails:
\* it hands no PullResult to its caller and the stored checkpoint is the one
\* the run began with; a pull that did hand out a PullResult has written its
\* checkpoint.
C11_CheckpointFailureIsFatal ==
  /\ (failedAt = "writeCheckpoint" =>
        pullPc = "failed" /\ result = None /\ checkpoint = checkpointBefore)
  /\ (IsSome(result) => pullPc = "returned" /\ checkpoint = Some(NowISO))

\* C11 witness: all outputs were written and the checkpoint write failed
C11_Witness ==
  /\ pullPc = "failed"
  /\ failedAt = "writeCheckpoint"
  /\ IsSome(jsonFile)
  /\ IsSome(csvFile)
  /\ result = None

\* C12: a raw record whose mapping or validation fails is appended to the
\* rejects as {raw, reason} and the loop goes on: every deduplicated record is
\* either accepted or rejected, no failure of pull comes from the transform,
\* and a pull with rejects still returns, with its rejects file and its
\* checkpoint written.
C12_RejectsNeverAbort ==
  /\ (pullPc = "failed" =>
        failedAt \in {"loadConfig", "dateWindow", "fetchAll"} \cup WriteSteps)
  /\ (Transformed =>
        LET d == Dedupe(returned)
        IN /\ \A i \in 1..Len(d) :
                IF MapOutcome(Catalogue[d[i]]) = "ok"
                  THEN \E j \in 1..Len(opportunities) : opportunities[j].raw = d[i]
                  ELSE \E j \in 1..Len(rejects) :
                         rejects[j] = [raw |-> d[i], reason |-> MapOutcome(Catalogue[d[i]])]
           /\ Len(opportunities) + Len(rejects) = Len(d))
  /\ (pullPc = "returned" =>
        /\ checkpoint = Some(NowISO)
        /\ result[1].rejected = Len(rejects)
        /\ result[1].valid = Len(opportunities)
        /\ (rejects # <<>> => rejectsFile = Some(rejects)))

\* C12 witness: a pull with accepted and rejected records has returned
C12_Witness ==
  /\ pullPc = "returned"
  /\ rejects # <<>>
  /\ opportunities # <<>>
  /\ checkpoint = Some(NowISO)

\* C13: when the fetch of a page fails, the failing request is the last one of
\* the run, pull has failed, and nothing was transformed or written: no
\* rejects, JSON, CSV or SQLite output, no result, the checkpoint unchanged.
C13_FetchFailureAborts ==
  faPc = "thrown" =>
    /\ pullPc = "failed"
    /\ failedAt = "fetchAll"
    /\ Len(sent) = pageCount + 1
    /\ opportunities = <<>>
    /\ rejectsFile = None
    /\ jsonFile = None
    /\ csvFile = None
    /\ sqliteFile = None
    /\ result = None
    /\ checkpoint = checkpointBefore

\* C13 witness: a page was received, then the fetch of a later page failed
C13_Witness ==
  /\ faPc = "thrown"
  /\ pullPc = "failed"
  /\ pageCount >= 1
  /\ allResults # <<>>

\* the counts of a run, as the PullResult of lines 143-149 holds them
FullCounts ==
  [totalFetched |-> Len(Dedupe(returned)), valid |-> Len(opportunities),
   rejected |-> Len(rejects),
   pages |-> CeilDiv(Len(Dedupe(returned)), PageSizeOf(query))]

\* C14: a pull that fails hands its caller the counts reached before the
\* failure together with the error; a pull that succeeds hands it the full
\* counts.
C14_FailureReportsPartialCounts ==
  /\ (pullPc = "failed" => IsSome(result))
  /\ (pullPc = "returned" => result = Some(FullCounts))

\* the aliases the three required fields are known by
IdentityAliases == {"id", "opportunityId", "opportunityNumber", "oppId"}
PostedDateAliases == {"openDate", "postedDate"}
\* some alias of each required field of the record carries a usable value
Derivable(raw) ==
  /\ \E a \in IdentityAliases : Truthy(raw[a])
  /\ Truthy(raw.title)
  /\ \E a \in PostedDateAliases : raw[a].t = "string" /\ raw[a].s \in ReadableDates

\* C15: a record is rejected by the mapping if and only if no identity, no
\* non-empty title or no readable posted date can be derived from any known
\* alias; a record with a usable alias of each field is accepted.
C15_MapFailsIffUnderivable ==
  Transformed =>
    /\ \A j \in 1..Len(rejects) : ~Derivable(Catalogue[rejects[j].raw])
    /\ \A j \in 1..Len(opportunities) : Derivable(Catalogue[opportunities[j].raw])

\* C17: the accepted opportunities of a pull have pairwise distinct ids, and
\* each of them is the first raw record of its id among the records fetched.
C17_UniqueIds ==
  Transformed =>
    /\ \A i, j \in 1..Len(opportunities) :
         i # j => opportunities[i].id # opportunities[j].id
    /\ \A i \in 1..Len(opportunities) :
         \E k \in 1..Len(returned) :
           /\ returned[k] = opportunities[i].raw
           /\ \A m \in 1..(k - 1) :
                DedupeId(Catalogue[returned[m]]) # opportunities[i].id

\* C17 witness: upstream served id 7 as a number and later as a string, and a
\* record twice; the number one was accepted
C17_Witness ==
  /\ Transformed
  /\ \E k1, k2 \in 1..Len(returned) :
       k1 < k2 /\ returned[k1] = 2 /\ returned[k2] = 3
  /\ \E k1, k2 \in 1..Len(returned) : k1 # k2 /\ returned[k1] = returned[k2]
  /\ \E j \in 1..Len(opportunities) :
       opportunities[j].raw = 2 /\ opportunities[j].id = "7"

(***************************************************************************)
(* Claims about the web scraper                                            *)
(***************************************************************************)
\* a record's required fields are all non-empty
NonEmptyRequired(record) ==
  record.id # "" /\ record.title # "" /\ record.source # ""
\* the opportunities of the API path in the list have a non-empty id and title
NonEmptyOpportunities(list) ==
  \A j \in 1..Len(list) : list[j].id # "" /\ Catalogue[list[j].raw].title.s # ""

\* C16: every accepted record has non-empty required fields: each opportunity
\* pull accepts and writes has a non-empty id and title, and each record
\* analyzeGrantPage returns with isGrant = true and each record saved after
\* hydrateRecord has a non-empty id, title and source.
C16_RequiredFieldsNonEmpty ==
  /\ NonEmptyOpportunities(opportunities)
  /\ \A file \in {jsonFile, csvFile, sqliteFile} :
       IsSome(file) => NonEmptyOpportunities(file[1])
  /\ (analysis # None /\ analysis[1].isGrant => NonEmptyRequired(analysis[1]))
  /\ (saved # None => NonEmptyRequired(saved[1]))

\* C16 witness: a record that came with no id, title or source and an
\* unreadable URL was saved with all three filled in
C16_Witness ==
  /\ saved # None
  /\ saved[1].title = "Untitled Opportunity"
  /\ saved[1].source = "web-scraped"
  /\ saved[1].id = CreateStableId("opportunity-unknown")
  /\ saved[1].source_record_url = BadUrl

\* the outcome of each stage for a page, in the order of the cascade
StageVerdicts(in, z, t) ==
  << PassesDomain(in), PassesTitle(in), PassesTribal(in), PassesGeneric(in),
     PassesTopics(in), PassesFeatures(in), PassesExpiry(in, z, t),
     PassesSpecificity(in, z) >>
\* analyzeGrantPage has returned
Analysed == stage = "done" /\ analysis # None

ValidUpToExpiry(in) ==
  /\ PassesDomain(in) /\ PassesTitle(in) /\ PassesTribal(in)
  /\ PassesGeneric(in) /\ PassesTopics(in) /\ PassesFeatures(in)
\* analyzeGrantPage returned {isGrant: false} from the expiry stage
RejectedAsExpired ==
  analysis[1] = NotGrant /\ evaluated = SubSeq(Stages, 1, 7)

\* C19: an otherwise valid page is rejected by the expiry stage when the date
\* of its deadline phrase is before the current day of the process, and is
\* not rejected by it when that date is the current day or later, or when
\* the page has no readable deadline, in every zone and at every hour.
C19_ExpiryByCalendarDate ==
  (Analysed /\ ValidUpToExpiry(input)) =>
    IF input.deadline = None \/ input.deadline[1].form = "unreadable"
      THEN ~RejectedAsExpired
      ELSE IF input.deadline[1].day < Today THEN RejectedAsExpired
                                            ELSE ~RejectedAsExpired

\* the place-of-performance fields of a record
PopFields == {"pop_city", "pop_state", "pop_country"}

\* C20: the verdict of analyzeGrantPage, and every field of an accepted
\* record other than the place-of-performance fields, are the same for any
\* other location hint with the same page, zone and instant.
C20_HintNeverAffectsClassification ==
  Analysed /\ evaluated # <<>> =>
    \A h \in LocationHints :
      LET other == AnalyzeGrantPage([input EXCEPT !.locationHint = h], zone, wallClock)
      IN /\ other.isGrant = analysis[1].isGrant
         /\ analysis[1].isGrant =>
              \A f \in DOMAIN other \ PopFields : other[f] = analysis[1][f]

\* C20 witness: a page on a trusted non-.gov host was accepted with a hint that
\* filled in the place of performance
C20_Witness ==
  /\ Analysed
  /\ analysis[1].isGrant
  /\ input.url = TrustedUrl
  /\ analysis[1].pop_city = "Jacksonville"
  /\ analysis[1].pop_state = "FL"
  /\ analysis[1].pop_country = "US"

\* the instant of local hour h of the current day in the process's zone
InstantAt(hour) == Today * HoursPerDay + hour - zone
\* the fields of a record that hold the instant of the call or depend on it
TimeFields == {"relevance_score", "created_at"}

\* C21 (as claimed): a call with the same inputs at any other instant, later
\* the same day or on a later day, returns the same result.
C21_PureFunction ==
  Analysed /\ evaluated # <<>> =>
    \A t \in {wallClock + 1, wallClock + HoursPerDay, wallClock + 2 * HoursPerDay} :
      AnalyzeGrantPage(input, zone, t) = analysis[1]

\* C21 (amended): the result is a function of the inputs, the zone and the
\* instant of the call; calls with the same inputs on the same calendar day
\* return the same verdict and, when accepted, records that are the same in
\* every field but relevance_score and created_at.
C21_FunctionOfInputsAndDay ==
  Analysed /\ evaluated # <<>> =>
    /\ AnalyzeGrantPage(input, zone, wallClock) = analysis[1]
    /\ \A hour \in LocalHours :
         LET other == AnalyzeGrantPage(input, zone, InstantAt(hour))
         IN /\ other.isGrant = analysis[1].isGrant
            /\ analysis[1].isGrant =>
                 \A f \in DOMAIN other \ TimeFields : other[f] = analysis[1][f]

\* C21 witness: a page whose deadline is the current day was accepted late in
\* the day; the same call early in the day returns a record with another
\* created_at
C21_Witness ==
  /\ Analysed
  /\ analysis[1].isGrant
  /\ analysis[1].response_deadline = Some(Today)
  /\ \E hour \in LocalHours :
       AnalyzeGrantPage(input, zone, InstantAt(hour)).created_at # analysis[1].created_at

\* C26: every column of CSV_HEADERS is a key of every record analyzeGrantPage
\* returns with isGrant = true.
C26_EveryColumnPresent ==
  (Analysed /\ analysis[1].isGrant) => CSV_HEADERS \subseteq DOMAIN analysis[1]

\* the domain trust values of the three kinds of allowed host, in hundredths
AllowedTrusts == {100, 90, 80}

\* C27: the relevance_score of an accepted record is 0.6 * min(1, topics / 3)
\* + 0.2 * domainTrust + 0.2 * deadlineScore rounded to hundredths, with
\* domainTrust one of 1.0, 0.9, 0.8, and lies between 0 and 1.
C27_RelevanceScore ==
  (Analysed /\ analysis[1].isGrant) =>
    LET trust == ComputeDomainTrust(Hostname(input.url))
        topicScore == Min(1000, (1000 * Len(input.topicHits)) \div TopicsForFullScore)
        deadlineScore == ComputeDeadlineScore(analysis[1].response_deadline, wallClock)
    IN /\ trust \in AllowedTrusts
       /\ analysis[1].relevance_score =
            (6 * topicScore + 20 * trust + 2 * deadlineScore + 50) \div 100
       /\ analysis[1].relevance_score \in 0..100

\* C27 witness: accepted pages of a trusted host that is not a .gov host, with
\* a deadline ahead
C27_Witness ==
  /\ Analysed
  /\ analysis[1].isGrant
  /\ input.url = TrustedUrl
  /\ analysis[1].response_deadline = Some(Today + 1)
  /\ analysis[1].relevance_score > 0

\* the k-th raw record fetched has the identity of a record fetched before it
IsIdDuplicate(k) ==
  \E m \in 1..(k - 1) :
    DedupeId(Catalogue[returned[m]]) = DedupeId(Catalogue[returned[k]])

\* C29: once a pull has transformed what fetchAll returned, every raw record
\* that is not an id-duplicate of an earlier one is in exactly one of the
\* accepted output and the rejects, a record with no identity at all included,
\* and a successful pull reports valid + rejected = the number of such records.
C29_EveryRawAccountedFor ==
  Transformed =>
    LET distinct == {k \in 1..Len(returned) : ~IsIdDuplicate(k)}
        accepted(k) == \E j \in 1..Len(opportunities) : opportunities[j].raw = returned[k]
        rejected(k) == \E j \in 1..Len(rejects) : rejects[j].raw = returned[k]
    IN /\ \A k \in distinct : accepted(k) # rejected(k)
       /\ (pullPc = "returned" =>
             result[1].valid + result[1].rejected = Cardinality(distinct))

\* a failure that is not a 404 or 403: a 429, a 5xx or no response in time
IsTransient(response) == response.status \notin {200, 404, 403}

\* C28: fetchPageHtml sends at most three requests; a 404 or 403 ends the call
\* with that request; every transient failure before the last request is
\* followed by a delay, and the delays grow; and when the third request also
\* fails with a transient error, the call throws instead of returning "no page".
C28_ThreeAttemptsThenFatal ==
  /\ Len(fhResponses) <= FetchAttempts
  /\ \A i \in 1..(Len(fhResponses) - 1) :
       /\ IsTransient(fhResponses[i])
       /\ fhDelays[i] > 0
       /\ (i > 1 => fhDelays[i] > fhDelays[i - 1])
  /\ (fhPc = "done" =>
        LET last == fhResponses[Len(fhResponses)]
        IN /\ (last.status \in {404, 403} => fhResult = PageResult("null"))
           /\ (IsTransient(last) =>
                 /\ Len(fhResponses) = FetchAttempts
                 /\ fhResult = PageResult("thrown")))

\* the key the dedup index is described by: lower-cased title and agency, and
\* the deadline or nothing
DescribedKey(opportunity) ==
  <<Lower(opportunity.title), Lower(opportunity.agency), opportunity.response_deadline>>

\* C22: shouldSkipOpportunity returns true for a candidate whose URL is in the
\* seen-URL set, and for one whose key is in the seen-key set whatever its URL;
\* when it returns false the candidate is present and neither was seen.
C22_SkipsSeenUrlOrKey ==
  lastSkip # None =>
    LET call == lastSkip[1]
        opp == call.opportunity
        urlSeen == opp # NoOpportunity /\ opp.source_record_url \in call.sets.urlSet
        keySeen == opp # NoOpportunity /\ DescribedKey(opp) \in call.sets.keySet
    IN /\ (urlSeen => call.skipped)
       /\ (keySeen => call.skipped)
       /\ (~call.skipped => opp # NoOpportunity /\ ~urlSeen /\ ~keySeen)

\* C22 witness: a candidate under a new URL whose title differs in case only
\* from a persisted record's was skipped
C22_Witness ==
  /\ lastSkip # None
  /\ lastSkip[1].skipped
  /\ lastSkip[1].opportunity.title = "OVW TRANSITIONAL HOUSING"
  /\ lastSkip[1].opportunity.source_record_url \notin lastSkip[1].sets.urlSet
  /\ lastSkip[1].sets.keySet # {}

\* C23: in every scrape run, no two records saved by the run share a source
\* URL or a normalized key, and no saved record has the URL or the key of a
\* record persisted before the run.
C23_NoDuplicateSaved ==
  runPc = "saved" =>
    LET out == runSaved[1]
    IN /\ \A i, j \in 1..Len(out) :
            i # j => /\ out[i].source_record_url # out[j].source_record_url
                     /\ KeyOf(out[i]) # KeyOf(out[j])
       /\ \A i \in 1..Len(out) :
            /\ out[i].source_record_url \notin persisted.urlSet
            /\ KeyOf(out[i]) \notin persisted.keySet

\* how often x occurs in list
Count(x, list) == Cardinality({i \in 1..Len(list) : list[i] = x})

\* a ranks strictly before b: dated before undated, the earlier deadline
\* first, the higher relevance first among equal deadlines and among undated
RanksBefore(a, b) ==
  \/ IsDated(a) /\ ~IsDated(b)
  \/ /\ IsDated(a) /\ IsDated(b)
     /\ a.response_deadline[1] < b.response_deadline[1]
  \/ /\ a.response_deadline = b.response_deadline
     /\ a.relevance_score > b.relevance_score

\* C24: in the list selectTopOpportunities returns, no record ranks strictly
\* before a record that precedes it, and no candidate left out ranks strictly
\* before a record of the list.
C24_OrderedByComparator ==
  selected # None =>
    LET out == selected[1]
    IN /\ \A i, j \in 1..Len(out) : i < j => ~RanksBefore(out[j], out[i])
       /\ \A k \in 1..Len(collected) :
            Count(collected[k], collected) > Count(collected[k], out) =>
              \A i \in 1..Len(out) : ~RanksBefore(collected[k], out[i])

\* C24 witness: of three candidates the two chosen are a dated one and then an
\* undated one, and the first candidate given was left out
C24_Witness ==
  /\ selected # None
  /\ Len(collected) = 3
  /\ Len(selected[1]) = 2
  /\ IsDated(selected[1][1])
  /\ ~IsDated(selected[1][2])
  /\ Count(collected[1], selected[1]) = 0

\* C25: a call of selectTopOpportunities returns min(limit, number of
\* candidates) records, each an unmodified input candidate used at most as
\* often as it was given, and leaves the caller's list as it was.
C25_TruncatesOnly ==
  [][(runPc = "collected" /\ runPc' = "selected") =>
       /\ collected' = collected
       /\ Len(selected'[1]) = Min(limit, Len(collected))
       /\ \A i \in 1..Len(selected'[1]) :
            /\ Count(selected'[1][i], collected) >= 1
            /\ Count(selected'[1][i], selected'[1]) <= Count(selected'[1][i], collected)]_vars

\* C25 witness: one of two candidates was chosen, the second one given, and
\* the caller's list still holds both
C25_Witness ==
  /\ runPc = "selected"
  /\ limit = 1
  /\ Len(collected) = 2
  /\ selected[1] = <<collected[2]>>
  /\ collected[1] # collected[2]

\* C30: in a scrape-local run every network access for a candidate is for a
\* URL of an allowed host that is not in the dedup index at that moment, and
\* the index changes only by gaining the URL and key of a candidate whose page
\* was fetched in that step, classified as a grant and not skipped.
C30_ChecksBeforeNetwork ==
  [][runPc # "idle" =>
       /\ (netLog' # netLog =>
             /\ route = "local"
             /\ current # None
             /\ IsAllowedDomain(Hostname(current[1]))
             /\ current[1] \notin dedupeSets.urlSet
             /\ \E kind \in {"robots", "page"} :
                  netLog' = Append(netLog, [kind |-> kind, url |-> current[1]]))
       /\ (dedupeSets' # dedupeSets =>
             /\ route = "local"
             /\ current # None
             /\ netLog' = Append(netLog, [kind |-> "page", url |-> current[1]])
             /\ LET opp == AnalyzeGrantPage(PageAt(current[1]), zone, wallClock)
                IN /\ opp.isGrant
                   /\ opp.source_record_url \notin dedupeSets.urlSet
                   /\ KeyOf(opp) \notin dedupeSets.keySet
                   /\ dedupeSets'.urlSet = dedupeSets.urlSet \cup {opp.source_record_url}
                   /\ dedupeSets'.keySet = dedupeSets.keySet \cup {KeyOf(opp)}
                   /\ collected' = Append(collected, opp))]_vars

\* C30 witness: the searches returned the same page twice, spelt differently;
\* it was fetched once and accepted, and the run's index holds its URL
C30_Witness ==
  /\ route = "local"
  /\ runPc = "collected"
  /\ serp = <<GovUrl, GovUrlUpper>>
  /\ Len(collected) = 1
  /\ netLog = <<[kind |-> "robots", url |-> GovUrl], [kind |-> "page", url |-> GovUrl]>>
  /\ GovUrl \in dedupeSets.urlSet \ persisted.urlSet

====
